---- MODULE Spec2Model ----
(***************************************************************************)
(* TransitReader: the TransitFlow step graph (main.py), the knowledge      *)
(* ingestion of Setup (qdrant_setup.py), the embedding and search helpers  *)
(* (embeddings_fn.py, qdrant_search_tool.py) and the Gmail draft helper    *)
(* (gmail_utility_with_attachment.py).                                     *)
(*                                                                         *)
(* Calls into third-party services (LLM crews, ephemeris, Qdrant, Gemini,  *)
(* Gmail, md2pdf) are nondeterministic: each may return or raise.  Text    *)
(* values are abstracted to the empty string "" and a non-empty "text".    *)
(***************************************************************************)
EXTENDS Integers, Sequences, FiniteSets, TLC

VARIABLES
    \* ---- TransitFlow (main.py) ----
    kicked,              \* kickoff() has been called
    queued,              \* [step -> number of triggered, not yet started executions]
    active,              \* [step -> number of executions in progress]
    completed,           \* [step -> number of executions that returned]
    failed,              \* [step -> number of executions that raised]
    pending,             \* [and_ listener -> trigger methods still awaited]
    state,               \* [field -> text] the produced fields of self.state
    include_appendices,  \* self.state.include_appendices
    writers,             \* [field -> steps that have assigned it] (history)
    aborted,             \* the exception has propagated out of kickoff()
    md_file_written,     \* the markdown report file exists on disk
    draft_created,       \* GmailCrew created an email draft
    empty_out,           \* fields last assigned an empty output of an outside call (history)
    markdown_file,       \* the text of the markdown report file: <<>> or <<parts>>
    crews_invoked,       \* the steps that have kicked off their crew (history)
    state_fields,        \* the field names self.state has
    no_field,            \* the steps that raised for a field self.state lacks (history)
    construct_failed,    \* TransitFlow() raised inside kickoff()
    \* ---- Setup (qdrant_setup.py) and the Qdrant collection ----
    coll_exists,         \* the collection exists in Qdrant
    coll_size,           \* the vector size the collection was created with
    points,              \* [file -> [chunk -> number of stored points tagged with it]]
    has_genai,           \* self.genai_client is set
    has_qdrant,          \* self.qdrant_client is set
    processed_files,     \* self.processed_files
    in_pc,               \* "idle", or "processing" inside process_new_markdown_files
    new_files,           \* the files of new_files still to be processed
    in_ret,              \* what the last process_new_markdown_files call returned
    in_log,              \* what the current or last call did, per file and chunk (history)
    \* ---- embedding and search calls (embeddings_fn.py, qdrant_search_tool.py) ----
    emb_call,            \* the last custom_gemini_embedding_fn call and its outcome
    gen_call,            \* the last Setup.generate_gemini_embeddings call and its outcome
    search_call,         \* the last QdrantSearchTool._run call and its outcome
    \* ---- Gmail (gmail_utility_with_attachment.py) ----
    drafts,              \* the drafts created in the mailbox, oldest first
    draft_ret,           \* what the last gmail_create_draft_with_attachment call returned
    \* ---- output files of runs (constants.py, save_transit_analysis) ----
    clock,               \* the wall clock, in ticks
    run_pc,              \* [run -> "none", "chart", "save" or "done"]
    run_start,           \* [run -> NOW_DT of the run's process]
    run_name,            \* [run -> self.state.name]
    files,               \* the output files on disk, each with the run that wrote it last
    overwrites,          \* files a run wrote over another run's file (history)
    \* ---- subject profile and transit parameters (subject_selection.py, ----
    \* ---- transit_selection.py, models.py)                              ----
    subject_file,        \* the subject's JSON profile: <<>> or <<subject_data>>
    entered,             \* what the user entered in the last create_subject_data
    t_params,            \* the last get_transit_parameters call and its outcome
    t_state,             \* the outcome of the last create_transit_state
    \* ---- LLM configuration (llm_manager.py) ----
    llm_call,            \* the last get_llm_for_agent call: configuration and outcome
    \* ---- chunking (qdrant_setup.py, extract_text_from_markdown) ----
    content,             \* the text read from the file, as repeated segments
    ch_pc,               \* "read", "loop" (before an iteration) or "done"
    current_position,    \* current_position
    windows,             \* the [current_position, end_position) of each iteration so far
    text_chunks,         \* the chunks appended, each as the [lo, hi) of content it holds
    \* ---- aspect lines (chart_formatting.py, immanuel_natal_to_transit_chart.py) ----
    aspects,             \* the entries (active, passive) of the aspects dictionary, in its order
    object_map,          \* the object ids object_map has
    next_aspect,         \* the index of the entry the loops reach next
    processed_aspects,   \* processed_aspects
    aspect_lines,        \* output_lines: the (active, passive) of each aspect line, or <<"none">>
    as_pc                \* "loop" or "done"

flowVars == <<kicked, queued, active, completed, failed, pending, state,
              include_appendices, writers, aborted, md_file_written, draft_created,
              empty_out, markdown_file, crews_invoked, state_fields, no_field,
              construct_failed>>

ingestVars == <<coll_exists, coll_size, points, has_genai, has_qdrant,
                processed_files, in_pc, new_files, in_ret, in_log>>

embedVars == <<emb_call, gen_call, search_call>>

draftVars == <<drafts, draft_ret>>

outputVars == <<clock, run_pc, run_start, run_name, files, overwrites>>

profileVars == <<subject_file, entered, t_params, t_state>>

llmVars == <<llm_call>>

chunkVars == <<content, ch_pc, current_position, windows, text_chunks>>

aspectVars == <<aspects, object_map, next_aspect, processed_aspects, aspect_lines, as_pc>>

vars == <<flowVars, ingestVars, embedVars, draftVars, outputVars, profileVars, llmVars, chunkVars, aspectVars>>

\* Optional values: None is <<>>, a value v is <<v>>.
None == <<>>

Some(v) == <<v>>

(***************************************************************************)
(* The flow graph                                                          *)
(***************************************************************************)
ChartSteps == {"generate_current_transits", "get_natal_chart_data",
               "get_transit_to_natal_chart_data"}

AnalysisSteps == {"generate_transit_analysis", "generate_natal_analysis",
                  "generate_transit_to_natal_analysis"}

ReviewSteps == {"review_transit_analysis", "review_natal_analysis",
                "review_transit_to_natal_analysis"}

TailSteps == <<"generate_chart_appendices", "generate_report_draft",
               "interrogate_report_draft", "generate_kerykeion_transit_chart",
               "save_transit_analysis", "send_transit_analysis">>

Steps == {"setup_qdrant"} \cup ChartSteps \cup AnalysisSteps \cup ReviewSteps
         \cup {TailSteps[i] : i \in 1..Len(TailSteps)}

Fields == {"current_transits", "natal_chart", "transit_to_natal_chart",
           "transit_analysis", "natal_analysis", "transit_to_natal_analysis",
           "chart_appendices", "report_markdown", "kerykeion_transit_chart",
           "report_pdf"}

ChartFields == {"current_transits", "natal_chart", "transit_to_natal_chart"}

Text == {"", "text"}

\* The conditions a decorator can state.
OnStart == [kind |-> "start", methods |-> {}]

On(m) == [kind |-> "or", methods |-> {m}]

OnAll(ms) == [kind |-> "and", methods |-> ms]

OnAny(ms) == [kind |-> "or", methods |-> ms]

\* @listen(generate_chart_appendices) ... @listen(save_transit_analysis): the
\* decorators of the steps after generate_chart_appendices.
TailListen(s) ==
    CASE s = "generate_report_draft" -> On("generate_chart_appendices")
      [] s = "interrogate_report_draft" -> On("generate_report_draft")
      [] s = "generate_kerykeion_transit_chart" -> On("interrogate_report_draft")
      [] s = "save_transit_analysis" -> On("generate_kerykeion_transit_chart")
      [] OTHER -> On("save_transit_analysis")

\* The analysis step a review step is declared to follow.
ReviewListen(s) ==
    CASE s = "review_transit_analysis" -> On("generate_transit_analysis")
      [] s = "review_natal_analysis" -> On("generate_natal_analysis")
      [] OTHER -> On("generate_transit_to_natal_analysis")

\* ListenOf with the analysis steps declared with or_ in place of and_.
ListenOfAnalysesOr(s) ==
    CASE s = "setup_qdrant" -> OnStart
      [] s \in ChartSteps -> On("setup_qdrant")
      [] s \in AnalysisSteps -> OnAny(ChartSteps)
      [] s \in ReviewSteps -> ReviewListen(s)
      [] s = "generate_chart_appendices" -> OnAll(ReviewSteps)
      [] OTHER -> TailListen(s)

\* ListenOf with the review steps carrying the decorator of the analysis steps.
ListenOfReviewsOnCharts(s) ==
    CASE s = "setup_qdrant" -> OnStart
      [] s \in ChartSteps -> On("setup_qdrant")
      [] s \in AnalysisSteps -> OnAll(ChartSteps)
      [] s \in ReviewSteps -> OnAll(ChartSteps)
      [] s = "generate_chart_appendices" -> OnAll(ReviewSteps)
      [] OTHER -> TailListen(s)

\* ListenOf with generate_chart_appendices declared with or_ in place of and_.
ListenOfAppendicesOr(s) ==
    CASE s = "setup_qdrant" -> OnStart
      [] s \in ChartSteps -> On("setup_qdrant")
      [] s \in AnalysisSteps -> OnAll(ChartSteps)
      [] s \in ReviewSteps -> ReviewListen(s)
      [] s = "generate_chart_appendices" -> OnAny(ReviewSteps)
      [] OTHER -> TailListen(s)

\* The decorator of each step: @start(), @listen(m) or @listen(and_(m1, m2, m3)).
ListenOf(s) ==
    CASE s = "setup_qdrant" -> OnStart
      [] s \in ChartSteps -> On("setup_qdrant")
      [] s \in AnalysisSteps -> OnAll(ChartSteps)
      [] s \in ReviewSteps -> ReviewListen(s)
      [] s = "generate_chart_appendices" -> OnAll(ReviewSteps)
      [] OTHER -> TailListen(s)

\* The produced fields a step reads from self.state (its inputs dictionary).
ReadsOf(s, incl) ==
    CASE s = "generate_transit_analysis" -> {"current_transits"}
      [] s = "generate_natal_analysis" -> {"natal_chart"}
      [] s = "generate_transit_to_natal_analysis" -> {"transit_to_natal_chart"}
      [] s = "review_transit_analysis" -> {"transit_analysis", "current_transits"}
      [] s = "review_natal_analysis" -> {"natal_analysis", "natal_chart"}
      [] s = "review_transit_to_natal_analysis" ->
            {"transit_to_natal_analysis", "transit_to_natal_chart"}
      [] s = "generate_chart_appendices" ->
            IF incl
            THEN {"transit_analysis", "current_transits", "natal_analysis",
                  "natal_chart", "transit_to_natal_analysis", "transit_to_natal_chart"}
            ELSE {}
      [] s = "generate_report_draft" ->
            {"transit_analysis", "natal_analysis", "transit_to_natal_analysis"}
      [] s = "interrogate_report_draft" ->
            {"report_markdown", "transit_analysis", "natal_analysis",
             "transit_to_natal_analysis", "current_transits", "natal_chart",
             "transit_to_natal_chart"}
      [] s = "save_transit_analysis" ->
            {"report_markdown", "kerykeion_transit_chart", "chart_appendices"}
      [] s = "send_transit_analysis" -> {"transit_analysis", "report_pdf"}
      [] OTHER -> {}

\* The produced fields a step assigns on self.state.
WritesOf(s) ==
    CASE s = "generate_current_transits" -> {"current_transits"}
      [] s = "get_natal_chart_data" -> {"natal_chart"}
      [] s = "get_transit_to_natal_chart_data" -> {"transit_to_natal_chart"}
      [] s = "generate_transit_analysis" -> {"transit_analysis"}
      [] s = "generate_natal_analysis" -> {"natal_analysis"}
      [] s = "generate_transit_to_natal_analysis" -> {"transit_to_natal_analysis"}
      [] s = "review_transit_analysis" -> {"transit_analysis"}
      [] s = "review_natal_analysis" -> {"natal_analysis"}
      [] s = "review_transit_to_natal_analysis" -> {"transit_to_natal_analysis"}
      [] s = "generate_chart_appendices" -> {"chart_appendices"}
      [] s = "generate_report_draft" -> {"report_markdown"}
      [] s = "interrogate_report_draft" -> {"report_markdown"}
      [] s = "generate_kerykeion_transit_chart" -> {"kerykeion_transit_chart"}
      [] s = "save_transit_analysis" -> {"report_markdown", "report_pdf"}
      [] OTHER -> {}

\* The fields of self.state a step reads that no step assigns.
InputReadsOf(s) ==
    CASE s = "generate_current_transits" ->
            {"current_location_latitude", "current_location_longitude",
             "transit_datetime"}
      [] s = "get_natal_chart_data" ->
            {"date_of_birth", "birthplace_latitude", "birthplace_longitude"}
      [] s = "get_transit_to_natal_chart_data" ->
            {"current_location_latitude", "current_location_longitude",
             "date_of_birth", "birthplace_latitude", "birthplace_longitude",
             "transit_datetime"}
      [] s = "generate_transit_analysis" ->
            {"name", "transit_date_formatted", "current_location",
             "biographical_context"}
      [] s = "generate_natal_analysis" ->
            {"name", "dob", "birthplace", "today", "biographical_context"}
      [] s = "generate_transit_to_natal_analysis" ->
            {"name", "transit_date_formatted", "dob", "birthplace",
             "current_location", "biographical_context"}
      [] s = "review_transit_analysis" ->
            {"transit_date_formatted", "name", "current_location"}
      [] s = "review_natal_analysis" -> {"name", "today", "dob", "birthplace"}
      [] s = "review_transit_to_natal_analysis" ->
            {"name", "transit_date_formatted", "dob", "birthplace",
             "current_location"}
      [] s = "generate_chart_appendices" -> {"include_appendices"}
      [] s = "generate_report_draft" ->
            {"name", "today", "transit_date_formatted", "is_custom_transit",
             "current_location", "dob", "birthplace", "biographical_context"}
      [] s = "interrogate_report_draft" ->
            {"today", "transit_date_formatted", "name", "current_location",
             "dob", "birthplace"}
      [] s = "generate_kerykeion_transit_chart" ->
            {"name", "date_of_birth", "birthplace_city", "birthplace_country",
             "birthplace_longitude", "birthplace_latitude", "birthplace_timezone",
             "transit_datetime", "is_custom_transit", "current_location_city",
             "current_location_country", "current_location_longitude",
             "current_location_latitude", "current_location_timezone"}
      [] s = "save_transit_analysis" -> {"name"}
      [] s = "send_transit_analysis" ->
            {"name", "email", "today", "transit_date_formatted"}
      [] OTHER -> {}

\* The further input fields generate_chart_appendices reads when appendices
\* are on.
AppendicesInputReads ==
    {"name", "transit_date_formatted", "dob", "birthplace", "current_location"}

\* Every field of self.state step s reads or assigns.
Accesses(s, incl) ==
    InputReadsOf(s) \cup ReadsOf(s, incl) \cup WritesOf(s)
    \cup (IF s = "generate_chart_appendices" /\ incl THEN AppendicesInputReads ELSE {})

\* The fields class TransitState declares.
TransitStateFields ==
    {"name", "email",
     "date_of_birth", "dob", "birthplace", "birthplace_city", "birthplace_country",
     "birthplace_latitude", "birthplace_longitude", "birthplace_timezone",
     "today", "transit_datetime", "transit_date_formatted", "current_location",
     "current_location_city", "current_location_country",
     "current_location_latitude", "current_location_longitude",
     "current_location_timezone", "is_custom_transit",
     "current_transits", "transit_analysis", "natal_chart", "natal_analysis",
     "transit_to_natal_chart", "transit_to_natal_analysis",
     "kerykeion_transit_chart", "report_markdown", "report_pdf"}

\* The fields the steps of TransitFlow take self.state to have.
StepFields == UNION {Accesses(s, TRUE) : s \in Steps}

\* The steps whose result is the .raw output of a crew kickoff.
CrewSteps == AnalysisSteps \cup ReviewSteps \cup
             {"generate_chart_appendices", "generate_report_draft",
              "interrogate_report_draft"}

\* The step that first produces a field.
ProducerOf(f) ==
    CASE f = "current_transits" -> "generate_current_transits"
      [] f = "natal_chart" -> "get_natal_chart_data"
      [] f = "transit_to_natal_chart" -> "get_transit_to_natal_chart_data"
      [] f = "transit_analysis" -> "generate_transit_analysis"
      [] f = "natal_analysis" -> "generate_natal_analysis"
      [] f = "transit_to_natal_analysis" -> "generate_transit_to_natal_analysis"
      [] f = "chart_appendices" -> "generate_chart_appendices"
      [] f = "report_markdown" -> "generate_report_draft"
      [] f = "kerykeion_transit_chart" -> "generate_kerykeion_transit_chart"
      [] OTHER -> "save_transit_analysis"


(***************************************************************************)
(* What a step assigns when it returns                                     *)
(***************************************************************************)
\* get_transit_natal_aspects joins its output lines, the first of which is the
\* fixed header "--- Transit to Natal Chart Summary ---": never empty.
TransitNatalAspectsText == "text"

\* get_kerykeion_transit_chart returns the path of the renamed PNG.
KerykeionChartPath == "text"

\* convert_md_to_pdf returns the markdown path with the suffix .pdf.
PdfPath == "text"

\* str.replace of the chart placeholder: an empty report stays empty, a
\* non-empty one stays non-empty.
ReplacePlaceholder(report, chart) == IF report = "" THEN "" ELSE "text"

\* The steps that assign what a call outside this code returned, unchecked:
\* the .raw output of a crew, get_transit_chart, get_natal_chart.
ForwardingSteps == CrewSteps \cup {"generate_current_transits", "get_natal_chart_data"}

\* The values that call may return to step s: any text.  The other steps
\* (and generate_chart_appendices with appendices off) make no such call.
CallOutputs(s, incl) ==
    IF s \in ForwardingSteps /\ (s # "generate_chart_appendices" \/ incl)
    THEN Text
    ELSE {"text"}

\* The value step s assigns to field f when it returns; out is what its
\* outside call returned.
AssignedValue(s, f, out, st, incl) ==
    CASE s = "get_transit_to_natal_chart_data" -> TransitNatalAspectsText
      [] s = "generate_chart_appendices" -> IF incl THEN out ELSE ""
      [] s = "generate_kerykeion_transit_chart" -> KerykeionChartPath
      [] s = "save_transit_analysis" ->
            IF f = "report_markdown"
            THEN ReplacePlaceholder(st["report_markdown"], st["kerykeion_transit_chart"])
            ELSE PdfPath
      [] OTHER -> out

\* The separator save_transit_analysis puts before the appendices.
Separator == "\n\n---\n\n"

\* full_markdown of save_transit_analysis as the parts it concatenates, with
\* the separator always inserted.
FullMarkdownAlwaysSeparated(report, appendices) == <<report, Separator, appendices>>

\* full_markdown of save_transit_analysis as the parts it concatenates.
FullMarkdown(report, appendices) ==
    IF appendices # "" THEN <<report, Separator, appendices>> ELSE <<report>>

(***************************************************************************)
(* The flow executor: a listener is triggered by the completion of the     *)
(* methods its decorator names                                             *)
(***************************************************************************)
\* Whether the completion of method m fires listener l, given the methods
\* the and_ listeners still await.
Fires(l, m, pend) ==
    LET c == ListenOf(l) IN
    CASE c.kind = "or" -> m \in c.methods
      [] c.kind = "and" -> m \in c.methods /\ pend[l] \ {m} = {}
      [] OTHER -> FALSE

\* The awaited methods of the and_ listeners after method m completed.
PendingAfter(m, pend) ==
    [l \in Steps |->
        LET c == ListenOf(l) IN
        IF c.kind = "and" /\ m \in c.methods
        THEN IF pend[l] \ {m} = {} THEN c.methods ELSE pend[l] \ {m}
        ELSE pend[l]]

Started(s) == active[s] + completed[s] + failed[s] > 0

Done(s) == completed[s] > 0

AnyFailed == \E s \in Steps : failed[s] > 0

\* The steps whose decorator names a step of S.
DirectListeners(S) == {l \in Steps : ListenOf(l).methods \cap S # {}}

RECURSIVE ListenerClosure(_)
ListenerClosure(S) ==
    LET n == S \cup DirectListeners(S) IN
    IF n = S THEN S ELSE ListenerClosure(n)

\* The steps that listen to s directly or through other steps.
Downstream(s) == ListenerClosure(DirectListeners({s}))

\* The number of executions of s triggered so far.
Runs(s) == queued[s] + active[s] + completed[s] + failed[s]

\* Whether step s kicks off a crew: the crew steps and send_transit_analysis
\* (GmailCrew), generate_chart_appendices only with appendices on.
InvokesCrew(s, incl) ==
    /\ s \in CrewSteps \cup {"send_transit_analysis"}
    /\ (s # "generate_chart_appendices" \/ incl)

\* Whether self.state lacks a field step s reads or assigns: the read raises
\* AttributeError, the assignment ValueError.
LacksField(s, incl, fields) == ~(Accesses(s, incl) \subseteq fields)

\* The state after construction, self.state having the given fields.
InitFlowOn(fields) ==
    /\ kicked = FALSE
    /\ queued = [s \in Steps |-> 0]
    /\ active = [s \in Steps |-> 0]
    /\ completed = [s \in Steps |-> 0]
    /\ failed = [s \in Steps |-> 0]
    /\ pending = [s \in Steps |->
                    IF ListenOf(s).kind = "and" THEN ListenOf(s).methods ELSE {}]
    /\ state = [f \in Fields |-> ""]
    /\ include_appendices \in BOOLEAN
    /\ writers = [f \in Fields |-> {}]
    /\ aborted = FALSE
    /\ md_file_written = FALSE
    /\ draft_created = FALSE
    /\ empty_out = {}
    /\ markdown_file = None
    /\ crews_invoked = {}
    /\ state_fields = fields
    /\ no_field = {}
    /\ construct_failed = FALSE

\* The flow on a state record that has every field the steps access.
InitFlow == InitFlowOn(StepFields)

\* The flow on the state record class TransitState declares.
InitFlowDeclared == InitFlowOn(TransitStateFields)

\* kickoff(): TransitFlow() has the framework build self.state from
\* TransitState, passing no values; the construction returns or raises.
\* When it returns, transit_flow.kickoff() schedules the @start() methods.
Kickoff ==
    /\ ~kicked
    /\ ~construct_failed
    /\ \E built \in BOOLEAN :
          /\ kicked' = built
          /\ construct_failed' = ~built
          /\ queued' = [s \in Steps |->
                          IF built /\ ListenOf(s).kind = "start"
                          THEN queued[s] + 1 ELSE queued[s]]
    /\ UNCHANGED <<active, completed, failed, pending, state, include_appendices,
                   writers, aborted, md_file_written, draft_created, empty_out,
                   markdown_file, crews_invoked, state_fields, no_field>>
    /\ UNCHANGED <<ingestVars, embedVars, draftVars, outputVars, profileVars, llmVars, chunkVars, aspectVars>>

\* A triggered step begins to run.
StartStep(s) ==
    /\ queued[s] > 0
    /\ ~aborted
    /\ queued' = [queued EXCEPT ![s] = @ - 1]
    /\ active' = [active EXCEPT ![s] = @ + 1]
    /\ UNCHANGED <<kicked, completed, failed, pending, state, include_appendices,
                   writers, aborted, md_file_written, draft_created, empty_out,
                   markdown_file, crews_invoked, state_fields, no_field,
                   construct_failed>>
    /\ UNCHANGED <<ingestVars, embedVars, draftVars, outputVars, profileVars, llmVars, chunkVars, aspectVars>>

\* A running step returns: its assignments to self.state take effect and the
\* listeners its completion fires are scheduled.  A step returns only when
\* self.state has every field it accesses.
FinishStep(s) ==
    /\ active[s] > 0
    /\ ~LacksField(s, include_appendices, state_fields)
    /\ \E out \in CallOutputs(s, include_appendices) :
          /\ state' = [f \in Fields |->
                        IF f \in WritesOf(s)
                        THEN AssignedValue(s, f, out, state, include_appendices)
                        ELSE state[f]]
          /\ empty_out' =
                IF s \in ForwardingSteps
                THEN IF out = "" /\ (s # "generate_chart_appendices" \/ include_appendices)
                     THEN empty_out \cup WritesOf(s)
                     ELSE empty_out \ WritesOf(s)
                ELSE empty_out
    /\ writers' = [f \in Fields |->
                      IF f \in WritesOf(s) THEN writers[f] \cup {s} ELSE writers[f]]
    /\ active' = [active EXCEPT ![s] = @ - 1]
    /\ completed' = [completed EXCEPT ![s] = @ + 1]
    /\ queued' = [l \in Steps |->
                    IF Fires(l, s, pending) THEN queued[l] + 1 ELSE queued[l]]
    /\ pending' = PendingAfter(s, pending)
    /\ md_file_written' = (md_file_written \/ s = "save_transit_analysis")
    /\ markdown_file' =
          IF s = "save_transit_analysis"
          THEN Some(FullMarkdown(
                      ReplacePlaceholder(state["report_markdown"],
                                         state["kerykeion_transit_chart"]),
                      state["chart_appendices"]))
          ELSE markdown_file
    /\ crews_invoked' =
          IF InvokesCrew(s, include_appendices) THEN crews_invoked \cup {s}
          ELSE crews_invoked
    /\ IF s = "send_transit_analysis"
       THEN \E d \in BOOLEAN : draft_created' = (draft_created \/ d)
       ELSE UNCHANGED draft_created
    /\ UNCHANGED <<kicked, failed, include_appendices, aborted, state_fields,
                   no_field, construct_failed>>
    /\ UNCHANGED <<ingestVars, embedVars, draftVars, outputVars, profileVars, llmVars, chunkVars, aspectVars>>

\* A running step raises: it never returns, so it fires no listener.  What
\* it did before the exception stays done: save_transit_analysis may have
\* written the markdown file before md2pdf failed, and GmailCrew may have
\* created the draft before a later call failed.  A step that accesses a
\* field self.state lacks raises at that access, which precedes its crew
\* kickoff and the writing of the markdown file.
RaiseStep(s) ==
    /\ active[s] > 0
    /\ active' = [active EXCEPT ![s] = @ - 1]
    /\ failed' = [failed EXCEPT ![s] = @ + 1]
    /\ no_field' =
          IF LacksField(s, include_appendices, state_fields)
          THEN no_field \cup {s} ELSE no_field
    /\ IF s = "save_transit_analysis"
       THEN \E w \in (IF LacksField(s, include_appendices, state_fields)
                      THEN {FALSE} ELSE BOOLEAN) :
              /\ md_file_written' = (md_file_written \/ w)
              /\ markdown_file' =
                    IF w
                    THEN Some(FullMarkdown(
                                ReplacePlaceholder(state["report_markdown"],
                                                   state["kerykeion_transit_chart"]),
                                state["chart_appendices"]))
                    ELSE markdown_file
              /\ writers' = [writers EXCEPT !["report_markdown"] =
                                IF w THEN @ \cup {s} ELSE @]
              /\ state' = [state EXCEPT !["report_markdown"] =
                                IF w THEN ReplacePlaceholder(@, state["kerykeion_transit_chart"])
                                ELSE @]
       ELSE UNCHANGED <<md_file_written, markdown_file, writers, state>>
    /\ IF InvokesCrew(s, include_appendices)
          /\ ~LacksField(s, include_appendices, state_fields)
       THEN \E c \in BOOLEAN :
              crews_invoked' = IF c THEN crews_invoked \cup {s} ELSE crews_invoked
       ELSE UNCHANGED crews_invoked
    /\ IF s = "send_transit_analysis"
       THEN \E d \in BOOLEAN : draft_created' = (draft_created \/ d)
       ELSE UNCHANGED draft_created
    /\ UNCHANGED <<kicked, queued, completed, pending, include_appendices, aborted,
                   empty_out, state_fields, construct_failed>>
    /\ UNCHANGED <<ingestVars, embedVars, draftVars, outputVars, profileVars, llmVars, chunkVars, aspectVars>>

\* The exception leaves transit_flow.kickoff(): the run is over and no
\* further step is started.
FlowAbort ==
    /\ AnyFailed
    /\ ~aborted
    /\ aborted' = TRUE
    /\ UNCHANGED <<kicked, queued, active, completed, failed, pending, state,
                   include_appendices, writers, md_file_written, draft_created,
                   empty_out, markdown_file, crews_invoked, state_fields, no_field,
                   construct_failed>>
    /\ UNCHANGED <<ingestVars, embedVars, draftVars, outputVars, profileVars, llmVars, chunkVars, aspectVars>>

(***************************************************************************)
(* Knowledge ingestion: Setup.process_new_markdown_files                   *)
(***************************************************************************)
\* The largest number of chunks a markdown file of the model is split into.
MaxChunks == 2

\* The largest number of stored points per chunk the model follows.
MaxCopies == 2

\* vector_size of store_in_qdrant (gemini-embedding-001).
VectorSize == 3072

\* The vector size of a collection created for text-embedding-004.
LegacyVectorSize == 768

\* DOCS_DIR.glob("*.md"), in the order the loop visits them.
MdFiles == <<"a.md", "b.md">>

Files == {MdFiles[i] : i \in 1..Len(MdFiles)}

\* The chunks extract_text_from_markdown returns for a file that can be read.
ChunksOf(f) == IF f = "a.md" THEN 1..MaxChunks ELSE {1}

NoPoints == [f \in Files |-> [c \in 1..MaxChunks |-> 0]]

\* count(collection, source == f).count
CountOf(f, pts) == LET n[c \in 0..MaxChunks] ==
                          IF c = 0 THEN 0 ELSE n[c - 1] + pts[f][c]
                   IN n[MaxChunks]

\* The log of a call that has not handled any file yet.
EmptyLog ==
    [extracted |-> [f \in Files |-> 0],
     stored |-> [f \in Files |-> 0],
     requests |-> [f \in Files |-> [c \in 1..MaxChunks |-> 0]],
     failed |-> {},
     result |-> {}]

\* Setup.__init__: the clients exist when their environment variables are
\* set; processed_files starts empty.
NewSetup(g, q) ==
    /\ in_pc = "idle"
    /\ has_genai' = g
    /\ has_qdrant' = q
    /\ processed_files' = {}
    /\ UNCHANGED <<coll_exists, coll_size, points, in_pc, new_files, in_ret, in_log>>
    /\ UNCHANGED <<flowVars, embedVars, draftVars, outputVars, profileVars, llmVars, chunkVars, aspectVars>>

\* Whether the scan loop finds file f already stored: the count query
\* returned (countFails holds the files whose query raised) a count > 0.
FoundInQdrant(f, countFails) ==
    /\ has_qdrant
    /\ coll_exists
    /\ f \notin countFails
    /\ CountOf(f, points) > 0

\* Whether the scan loop appends f to new_files.
IsNewFile(f, countFails) ==
    /\ f \notin processed_files
    /\ ~FoundInQdrant(f, countFails)

\* process_new_markdown_files up to the processing loop: the scan for new
\* files.  existsOK: the collection_exists calls return (they are outside
\* any try); countFails: the files whose count query raises.
ProcessScan(existsOK, countFails) ==
    /\ in_pc = "idle"
    /\ IF has_qdrant /\ ~existsOK
       THEN /\ in_ret' = "raised"
            /\ UNCHANGED <<processed_files, in_pc, new_files>>
            /\ in_log' = EmptyLog
       ELSE LET fresh == SelectSeq(MdFiles, LAMBDA f : IsNewFile(f, countFails)) IN
            /\ processed_files' = processed_files \cup
                  {f \in Files : f \notin processed_files /\ FoundInQdrant(f, countFails)}
            /\ new_files' = fresh
            /\ in_pc' = IF fresh = <<>> THEN "idle" ELSE "processing"
            /\ in_ret' = IF fresh = <<>> THEN "0" ELSE "running"
            /\ in_log' = EmptyLog
    /\ UNCHANGED <<coll_exists, coll_size, points, has_genai, has_qdrant>>
    /\ UNCHANGED <<flowVars, embedVars, draftVars, outputVars, profileVars, llmVars, chunkVars, aspectVars>>

\* generate_gemini_embeddings: the chunks whose embed_content call returned
\* (embedOK), none without a client.
GenerateGeminiEmbeddings(chunks, embedOK) ==
    IF has_genai THEN chunks \cap embedOK ELSE {}

\* An embedding loop that asks a second time for a chunk that failed.
EmbedRequestsRetrying(chunks, embedOK) ==
    [c \in 1..MaxChunks |->
        IF ~has_genai \/ c \notin chunks THEN 0
        ELSE IF c \in embedOK THEN 1 ELSE 2]

\* The number of embed_content calls generate_gemini_embeddings makes for
\* each chunk: one per chunk of the list, whether it returns or raises.
EmbedRequests(chunks, embedOK) ==
    [c \in 1..MaxChunks |-> IF has_genai /\ c \in chunks THEN 1 ELSE 0]

\* store_in_qdrant for the embedded chunks embs of file f.  env tells which
\* of get_collection, delete_collection, create_collection and upsert return.
StoreInQdrant(f, embs, env) ==
    LET same == [success |-> FALSE, exists |-> coll_exists, size |-> coll_size,
                 pts |-> points]
        recreate == coll_exists /\ (~env.get \/ coll_size # VectorSize)
        create == ~coll_exists \/ recreate
        \* after the delete_collection of the recreate branch
        dropped == [success |-> FALSE, exists |-> FALSE, size |-> coll_size,
                    pts |-> NoPoints]
        base == IF recreate THEN dropped ELSE same
        made == IF create
                THEN [base EXCEPT !.exists = TRUE, !.size = VectorSize]
                ELSE base
    IN
    IF ~has_qdrant THEN same
    ELSE IF recreate /\ ~env.del THEN same
    ELSE IF create /\ ~env.create THEN base
    ELSE IF ~env.upsert THEN made
    ELSE [made EXCEPT !.success = TRUE,
                      !.pts = [made.pts EXCEPT ![f] =
                                  [c \in 1..MaxChunks |->
                                      IF c \in embs THEN @[c] + 1 ELSE @[c]]]]

StoreEnv == [get : BOOLEAN, del : BOOLEAN, create : BOOLEAN, upsert : BOOLEAN]

\* One iteration of the processing loop: extract, embed and store the next
\* new file; after the last one the call returns len(new_files).
ProcessFile(readOK, embedOK, env) ==
    /\ in_pc = "processing"
    /\ LET f == Head(new_files)
           chunks == IF readOK THEN ChunksOf(f) ELSE {}
           embs == GenerateGeminiEmbeddings(chunks, embedOK)
           r == StoreInQdrant(f, embs, env)
           stored == embs # {}
       IN
       /\ stored => \A c \in embs : points[f][c] < MaxCopies
       /\ coll_exists' = IF stored THEN r.exists ELSE coll_exists
       /\ coll_size' = IF stored THEN r.size ELSE coll_size
       /\ points' = IF stored THEN r.pts ELSE points
       /\ processed_files' = IF stored /\ r.success
                             THEN processed_files \cup {f}
                             ELSE processed_files
       /\ in_log' =
             [extracted |-> [in_log.extracted EXCEPT ![f] = @ + 1],
              stored |-> [in_log.stored EXCEPT ![f] = IF stored THEN @ + 1 ELSE @],
              requests |-> [in_log.requests EXCEPT ![f] =
                              [c \in 1..MaxChunks |->
                                  @[c] + EmbedRequests(chunks, embedOK)[c]]],
              failed |-> in_log.failed \cup
                    {<<f, c>> : c \in {x \in chunks : has_genai /\ x \notin embedOK}},
              result |-> in_log.result \cup {<<f, c>> : c \in embs}]
    /\ new_files' = Tail(new_files)
    /\ in_pc' = IF Tail(new_files) = <<>> THEN "idle" ELSE "processing"
    /\ in_ret' = IF Tail(new_files) = <<>> THEN "n" ELSE "running"
    /\ UNCHANGED <<has_genai, has_qdrant>>
    /\ UNCHANGED <<flowVars, embedVars, draftVars, outputVars, profileVars, llmVars, chunkVars, aspectVars>>

\* A Setup just constructed, and the collection as a run may find it: absent,
\* or created earlier with either vector size, holding nothing yet.
InitIngest ==
    /\ coll_exists \in BOOLEAN
    /\ coll_size \in {VectorSize, LegacyVectorSize}
    /\ (~coll_exists => coll_size = VectorSize)
    /\ points = NoPoints
    /\ has_genai \in BOOLEAN
    /\ has_qdrant \in BOOLEAN
    /\ processed_files = {}
    /\ in_pc = "idle"
    /\ new_files = <<>>
    /\ in_ret = "none"
    /\ in_log = EmptyLog

\* The ingestion variables while only the flow is followed.
RestIngest ==
    /\ coll_exists = FALSE
    /\ coll_size = VectorSize
    /\ points = NoPoints
    /\ has_genai = TRUE
    /\ has_qdrant = TRUE
    /\ processed_files = {}
    /\ in_pc = "idle"
    /\ new_files = <<>>
    /\ in_ret = "none"
    /\ in_log = EmptyLog

\* The flow variables while the flow is not followed.
RestFlow == InitFlow /\ include_appendices

(***************************************************************************)
(* Embedding and search calls                                              *)
(***************************************************************************)
\* What genai.Client(api_key=...) can do: return a client, or raise (the
\* library rejects a missing key).  A returned client is never falsy.
ClientOutcomes == {"ok", "raises"}

\* What models.embed_content can do: return values, return no values, raise.
EmbedOutcomes == {"values", "empty", "raises"}

\* What client.search can do: return points, return none, raise.
SearchOutcomes == {"hits", "nohits", "raises"}

\* custom_gemini_embedding_fn with the client construction inside the try.
EmbeddingFnClientInTry(client, embed) ==
    IF client = "ok" /\ embed = "values" THEN "values" ELSE "None"

\* custom_gemini_embedding_fn: the client is constructed before the try, so
\* its exception propagates; inside the try every failure returns None.
CustomGeminiEmbeddingFn(client, embed) ==
    IF client = "raises" THEN "raise"
    ELSE IF embed = "values" THEN "values"
    ELSE "None"

\* QdrantSearchTool._run of a constructed tool (self.client is set by
\* __init__, custom_embedding_fn is left at its default None).
QdrantSearchRun(client, embed, search) ==
    LET query_vector == CustomGeminiEmbeddingFn(client, embed) IN
    IF query_vector = "raise" THEN "Error during Qdrant search"
    ELSE IF query_vector = "None"
         THEN "Error: Could not generate embedding for the query."
    ELSE IF search = "raises" THEN "Error during Qdrant search"
    ELSE IF search = "nohits" THEN "[]"
    ELSE "[results]"

NoEmbCall == [called |-> FALSE, client |-> "ok", embed |-> "values", ret |-> "values"]

NoGenCall == [called |-> FALSE, client |-> TRUE, chunks |-> {}, failed |-> {},
              ret |-> {}]

\* model= of the embed_content call of custom_gemini_embedding_fn.
QueryEmbeddingModel == "text-embedding-004"

\* model= of the embed_content call of generate_gemini_embeddings.
DocumentEmbeddingModel == "gemini-embedding-001"

\* The length of the vectors a model returns.
EmbeddingDimension(model) ==
    IF model = "text-embedding-004" THEN LegacyVectorSize ELSE VectorSize

\* A search call: its environment, its answer, the model and length of the
\* query vector, and the vector size of the collection searched when known.
SearchCall(client, embed, search, coll) ==
    [called |-> TRUE, client |-> client, embed |-> embed, search |-> search,
     ret |-> QdrantSearchRun(client, embed, search),
     query_model |-> QueryEmbeddingModel,
     query_size |-> EmbeddingDimension(QueryEmbeddingModel),
     coll |-> coll]

NoSearchCall ==
    [SearchCall("ok", "values", "hits", <<>>) EXCEPT !.called = FALSE]

CallEmbeddingFn(client, embed) ==
    /\ emb_call' = [called |-> TRUE, client |-> client, embed |-> embed,
                    ret |-> CustomGeminiEmbeddingFn(client, embed)]
    /\ UNCHANGED <<gen_call, search_call>>
    /\ UNCHANGED <<flowVars, ingestVars, draftVars, outputVars, profileVars, llmVars, chunkVars, aspectVars>>

\* generate_gemini_embeddings for n chunks of which those in embedOK embed.
CallGenerateEmbeddings(n, embedOK) ==
    /\ gen_call' = [called |-> TRUE, client |-> has_genai, chunks |-> 1..n,
                    failed |-> (1..n) \ embedOK,
                    ret |-> GenerateGeminiEmbeddings(1..n, embedOK)]
    /\ UNCHANGED <<emb_call, search_call>>
    /\ UNCHANGED <<flowVars, ingestVars, draftVars, outputVars, profileVars, llmVars, chunkVars, aspectVars>>

CallSearch(client, embed, search) ==
    /\ search_call' = SearchCall(client, embed, search, <<>>)
    /\ UNCHANGED <<emb_call, gen_call>>
    /\ UNCHANGED <<flowVars, ingestVars, draftVars, outputVars, profileVars, llmVars, chunkVars, aspectVars>>

\* What client.search can do on the collection as it is: it raises when the
\* collection does not exist or the query vector has another length than the
\* collection's vectors.
SearchOutcomesOn(exists, size) ==
    IF exists /\ size = EmbeddingDimension(QueryEmbeddingModel)
    THEN SearchOutcomes
    ELSE {"raises"}

\* QdrantSearchTool._run by an agent of a crew, on the collection that the
\* ingestion of setup_qdrant left.
SearchCollection(client, embed, search) ==
    /\ in_pc = "idle"
    /\ in_ret # "none"
    /\ search \in SearchOutcomesOn(coll_exists, coll_size)
    /\ search_call' = SearchCall(client, embed, search,
                                 IF coll_exists THEN <<coll_size>> ELSE <<>>)
    /\ UNCHANGED <<emb_call, gen_call>>
    /\ UNCHANGED <<flowVars, ingestVars, draftVars, outputVars, profileVars, llmVars, chunkVars, aspectVars>>

RestEmbed ==
    /\ emb_call = NoEmbCall
    /\ gen_call = NoGenCall
    /\ search_call = NoSearchCall

NextEmbed ==
    \/ \E client \in ClientOutcomes, embed \in EmbedOutcomes :
          CallEmbeddingFn(client, embed)
    \/ \E n \in 0..MaxChunks : \E embedOK \in SUBSET (1..n) :
          CallGenerateEmbeddings(n, embedOK)
    \/ \E client \in ClientOutcomes, embed \in EmbedOutcomes, search \in SearchOutcomes :
          CallSearch(client, embed, search)
    \/ \E g, q \in BOOLEAN : NewSetup(g, q)

(***************************************************************************)
(* Gmail drafts: gmail_create_draft_with_attachment                        *)
(***************************************************************************)
\* The largest number of drafts the model follows.
MaxDrafts == 3

\* main_type of the guessed content type of the attachment.
MainTypes == {"text", "image", "audio", "application"}

\* What opening, reading and encoding the attachment can do.
AttachmentOutcomes == {"ok", "notfound", "error"}

\* Attachment handling that goes on without the attachment after any error.
AttachmentHandlingLenient(att) ==
    IF att = "ok" THEN "attached" ELSE "skipped"

\* The attachment handling: the part is attached; a FileNotFoundError is
\* printed and the draft goes on without it; any other exception returns None.
AttachmentHandling(att) ==
    IF att = "ok" THEN "attached"
    ELSE IF att = "notfound" THEN "skipped"
    ELSE "abort"

\* gmail_create_draft_with_attachment: authOK, apiOK tell whether
\* authenticate_gmail and drafts().create().execute() return.
GmailCreateDraft(authOK, main_type, att, apiOK) ==
    /\ Len(drafts) < MaxDrafts
    /\ IF authOK /\ AttachmentHandling(att) # "abort" /\ apiOK
       THEN /\ drafts' = Append(drafts,
                  [attached |-> AttachmentHandling(att) = "attached",
                   main_type |-> main_type, file |-> att])
            /\ draft_ret' = "draft"
       ELSE /\ draft_ret' = "None"
            /\ UNCHANGED drafts
    /\ UNCHANGED <<flowVars, ingestVars, embedVars, outputVars, profileVars, llmVars, chunkVars, aspectVars>>

RestDraft ==
    /\ drafts = <<>>
    /\ draft_ret = "none"

NextDraft ==
    \E authOK, apiOK \in BOOLEAN, main_type \in MainTypes, att \in AttachmentOutcomes :
        GmailCreateDraft(authOK, main_type, att, apiOK)

(***************************************************************************)
(* Output files: constants.py, generate_kerykeion_transit_chart and        *)
(* save_transit_analysis of several runs (processes) on one machine        *)
(***************************************************************************)
\* The number of runs the model follows.
MaxRuns == 2

\* The last tick of the clock the model follows.
MaxClock == 5

\* The clock ticks within one second (strftime drops what is below a second).
TicksPerSecond == 2

\* The seconds of one day of the model.
SecondsPerDay == 2

RunIds == 1..MaxRuns

\* Subject names, as sequences of characters.
Names == {<<"A", " ", "B">>, <<"A", "_", "B">>, <<"C">>}

\* name.replace(' ', '_')
ReplaceSpaces(name) ==
    [i \in 1..Len(name) |-> IF name[i] = " " THEN "_" ELSE name[i]]

\* TIMESTAMP = NOW_DT.strftime("%Y-%m-%d_%H-%M-%S")
Timestamp(t) == t \div TicksPerSecond

\* DATE_TODAY = NOW_DT.strftime("%Y-%m-%d")
DateToday(t) == Timestamp(t) \div SecondsPerDay

\* A markdown path that carries the date only.
MarkdownFilePathDateOnly(r) ==
    [date |-> DateToday(run_start[r]), charts |-> FALSE,
     name |-> ReplaceSpaces(run_name[r]), stamp |-> <<>>, ext |-> "md"]

\* markdown_file_path = OUTPUT_DIR / f"{name.replace(' ', '_')}_{TIMESTAMP}.md"
MarkdownFilePath(r) ==
    [date |-> DateToday(run_start[r]), charts |-> FALSE,
     name |-> ReplaceSpaces(run_name[r]),
     stamp |-> <<Timestamp(run_start[r])>>, ext |-> "md"]

\* convert_md_to_pdf: Path(md_file_path).with_suffix('.pdf')
PdfFilePath(md) == [md EXCEPT !.ext = "pdf"]

\* get_kerykeion_transit_chart:
\* f"{CHARTS_DIR}/{subject.name.replace(' ', '_')}_-_Transit_Chart.png"
TransitChartPng(r) ==
    [date |-> DateToday(run_start[r]), charts |-> TRUE,
     name |-> ReplaceSpaces(run_name[r]), stamp |-> <<>>, ext |-> "png"]

\* Run r writes the file at path: the disk and the overwrite history after it.
WriteFile(disk, path, r) ==
    [files |-> {f \in disk.files : f.path # path} \cup {[path |-> path, owner |-> r]},
     overwrites |-> disk.overwrites \cup
        {[path |-> path, by |-> r, of |-> f.owner] :
            f \in {g \in disk.files : g.path = path /\ g.owner # r}}]

\* A process starts: constants.py is imported (NOW_DT = datetime.now()) and
\* the flow is kicked off for the selected subject.  Runs are numbered in
\* the order in which they start.
StartRun(r, name) ==
    /\ run_pc[r] = "none"
    /\ \A q \in RunIds : q < r => run_pc[q] # "none"
    /\ run_pc' = [run_pc EXCEPT ![r] = "chart"]
    /\ run_start' = [run_start EXCEPT ![r] = clock]
    /\ run_name' = [run_name EXCEPT ![r] = name]
    /\ UNCHANGED <<clock, files, overwrites>>
    /\ UNCHANGED <<flowVars, ingestVars, embedVars, draftVars, profileVars, llmVars, chunkVars, aspectVars>>

\* Time passes.
Tick ==
    /\ clock < MaxClock
    /\ clock' = clock + 1
    /\ UNCHANGED <<run_pc, run_start, run_name, files, overwrites>>
    /\ UNCHANGED <<flowVars, ingestVars, embedVars, draftVars, profileVars, llmVars, chunkVars, aspectVars>>

\* generate_kerykeion_transit_chart of run r: the PNG is written, or the
\* chart generation raises and the run ends.
GenerateKerykeionTransitChart(r, ok) ==
    /\ run_pc[r] = "chart"
    /\ LET d == WriteFile([files |-> files, overwrites |-> overwrites],
                          TransitChartPng(r), r)
       IN IF ok
          THEN /\ files' = d.files
               /\ overwrites' = d.overwrites
               /\ run_pc' = [run_pc EXCEPT ![r] = "save"]
          ELSE /\ run_pc' = [run_pc EXCEPT ![r] = "done"]
               /\ UNCHANGED <<files, overwrites>>
    /\ UNCHANGED <<clock, run_start, run_name>>
    /\ UNCHANGED <<flowVars, ingestVars, embedVars, draftVars, profileVars, llmVars, chunkVars, aspectVars>>

\* save_transit_analysis of run r: the markdown file is written, then
\* convert_md_to_pdf writes the PDF or raises.
SaveTransitAnalysis(r, pdfOK) ==
    /\ run_pc[r] = "save"
    /\ LET md == MarkdownFilePath(r)
           d1 == WriteFile([files |-> files, overwrites |-> overwrites], md, r)
           d2 == IF pdfOK THEN WriteFile(d1, PdfFilePath(md), r) ELSE d1
       IN /\ files' = d2.files
          /\ overwrites' = d2.overwrites
    /\ run_pc' = [run_pc EXCEPT ![r] = "done"]
    /\ UNCHANGED <<clock, run_start, run_name>>
    /\ UNCHANGED <<flowVars, ingestVars, embedVars, draftVars, profileVars, llmVars, chunkVars, aspectVars>>

\* No run has started.
RestOutput ==
    /\ clock = 0
    /\ run_pc = [r \in RunIds |-> "none"]
    /\ run_start = [r \in RunIds |-> 0]
    /\ run_name = [r \in RunIds |-> <<"C">>]
    /\ files = {}
    /\ overwrites = {}

NextOutput ==
    \/ \E r \in RunIds, name \in Names : StartRun(r, name)
    \/ Tick
    \/ \E r \in RunIds, ok \in BOOLEAN : GenerateKerykeionTransitChart(r, ok)
    \/ \E r \in RunIds, pdfOK \in BOOLEAN : SaveTransitAnalysis(r, pdfOK)

(***************************************************************************)
(* Subject profiles and transit parameters: create_subject_data,           *)
(* get_transit_parameters and create_transit_state                         *)
(***************************************************************************)
\* The decimal digits of n, most significant first.
RECURSIVE Digits(_)
Digits(n) == IF n < 10 THEN <<n>> ELSE Append(Digits(n \div 10), n % 10)

\* The number a sequence of digits denotes.
RECURSIVE Number(_)
Number(ds) ==
    IF ds = <<>> THEN 0 ELSE 10 * Number(SubSeq(ds, 1, Len(ds) - 1)) + ds[Len(ds)]

\* Digits padded with zeros on the left to the given width.
RECURSIVE ZeroPad(_, _)
ZeroPad(ds, width) == IF Len(ds) >= width THEN ds ELSE ZeroPad(<<0>> \o ds, width)

\* The widths strftime and strptime use: %Y four digits, the others two.
YearWidth == 4

FieldWidth == 2

\* dob_datetime.strftime("%Y-%m-%d %H:%M:%S"): the digit groups of the string.
\* The C library decides whether %Y pads a year below 1000 (padsYear).
Strftime(dt, padsYear) ==
    [year |-> IF padsYear THEN ZeroPad(Digits(dt.year), YearWidth) ELSE Digits(dt.year),
     month |-> ZeroPad(Digits(dt.month), FieldWidth),
     day |-> ZeroPad(Digits(dt.day), FieldWidth),
     hour |-> ZeroPad(Digits(dt.hour), FieldWidth),
     minute |-> ZeroPad(Digits(dt.minute), FieldWidth),
     second |-> ZeroPad(<<0>>, FieldWidth)]

\* datetime.strptime(s, "%Y-%m-%d %H:%M:%S"): %Y takes exactly four digits,
\* the other fields one or two; None stands for the ValueError.
Strptime(s) ==
    IF /\ Len(s.year) = YearWidth
       /\ \A f \in {"month", "day", "hour", "minute", "second"} :
             Len(s[f]) \in 1..FieldWidth
    THEN Some([year |-> Number(s.year), month |-> Number(s.month),
               day |-> Number(s.day), hour |-> Number(s.hour),
               minute |-> Number(s.minute)])
    ELSE None

\* Birth dates and times the user may enter (get_date_of_birth accepts every
\* valid date from year 1 to the current year).
BirthDatetimes ==
    [year : {999, 1000, 1990}, month : {12}, day : {31}, hour : {0, 23},
     minute : {5}]

\* Places as the geocoder resolves them: always with coordinates.
GeocodedPlaces ==
    {[city |-> "London", country |-> "United Kingdom", latitude |-> 51, longitude |-> 0],
     [city |-> "Quito", country |-> "Unknown", latitude |-> 0, longitude |-> -78]}

\* What get_timezone returns: a zone id, or None when the lookup fails.
TimezoneResults == {Some("tz"), None}

Emails == {"", "a@b.c"}

\* get_timezone of subject_selection.py: the zone id or None.
GetTimezone(result) == result

\* The subject_data dictionary create_subject_data writes.
SubjectData(name, dt, place, tzResult, email, padsYear) ==
    [name |-> name,
     date_of_birth |-> Strftime(dt, padsYear),
     birthplace |-> [longitude |-> Some(place.longitude),
                     latitude |-> Some(place.latitude),
                     place |-> place.city,
                     country |-> place.country,
                     timezone |-> GetTimezone(tzResult)],
     email |-> IF email # "" THEN Some(email) ELSE None]

\* Transit dates and times the user may enter (1900..2100), and the clock.
TransitDatetimes ==
    {[year |-> 2030, month |-> 6, day |-> 1, hour |-> 12, minute |-> 0]}

NowDatetimes ==
    {[year |-> 2026, month |-> 11, day |-> 1, hour |-> 9, minute |-> 30],
     [year |-> 2026, month |-> 11, day |-> 2, hour |-> 0, minute |-> 0]}

\* Locations as dictionaries: city, country, latitude, longitude, timezone.
Location(city, country, lat, lon, tz) ==
    [city |-> city, country |-> country, latitude |-> lat, longitude |-> lon,
     timezone |-> tz]

\* get_transit_location: the geocoded place with its timezone lookup.
TransitLocation(place, tzResult) ==
    Location(place.city, place.country, Some(place.latitude), Some(place.longitude),
             tzResult)

\* current_loc of create_transit_state: the profile's current_location if it
\* has one (create_subject_data writes none), else its birthplace.
CurrentLoc(subject_data) ==
    Location(subject_data.birthplace.place, subject_data.birthplace.country,
             subject_data.birthplace.latitude, subject_data.birthplace.longitude,
             subject_data.birthplace.timezone)

\* Saved locations get_transit_parameters may be handed: a location with
\* coordinates, or one whose latitude or longitude is None.
SavedLocations ==
    {Location("London", "United Kingdom", Some(51), Some(0), Some("tz")),
     Location("Quito", "Unknown", Some(0), Some(-78), None),
     Location("Unknown", "Unknown", None, None, None),
     Location("London", "United Kingdom", Some(51), None, Some("tz"))}

\* What the user types at the choice prompt.
ChoiceInputs == {"", "1", "2", "3", "4", "5", "x"}

\* The choice loop: the first input that is empty (option 1) or one of 1-4;
\* None while every input so far was rejected.
RECURSIVE Choice(_)
Choice(inputs) ==
    IF inputs = <<>> THEN None
    ELSE IF Head(inputs) = "" THEN Some("1")
    ELSE IF Head(inputs) \in {"1", "2", "3", "4"} THEN Some(Head(inputs))
    ELSE Choice(Tail(inputs))

HasCoordinates(loc) == loc.latitude # None /\ loc.longitude # None

\* The processing of the choice with is_custom set only when both were entered.
ProcessChoiceCustomOnlyBoth(choice, now, custom_dt, custom_loc, current_location) ==
    CASE choice = "1" -> [transit_datetime |-> now, location |-> current_location,
                          is_custom |-> FALSE]
      [] choice = "2" -> [transit_datetime |-> custom_dt, location |-> current_location,
                          is_custom |-> FALSE]
      [] choice = "3" -> [transit_datetime |-> now, location |-> custom_loc,
                          is_custom |-> FALSE]
      [] choice = "4" -> [transit_datetime |-> custom_dt, location |-> custom_loc,
                          is_custom |-> TRUE]

\* "Process choice" of get_transit_parameters.
ProcessChoice(choice, now, custom_dt, custom_loc, current_location) ==
    CASE choice = "1" -> [transit_datetime |-> now, location |-> current_location,
                          is_custom |-> FALSE]
      [] choice = "2" -> [transit_datetime |-> custom_dt, location |-> current_location,
                          is_custom |-> TRUE]
      [] choice = "3" -> [transit_datetime |-> now, location |-> custom_loc,
                          is_custom |-> TRUE]
      [] choice = "4" -> [transit_datetime |-> custom_dt, location |-> custom_loc,
                          is_custom |-> TRUE]

\* get_transit_parameters after the choice: the processing, the fall-back to
\* the current settings when the location lacks a coordinate, and the summary,
\* whose "{latitude:.4f}" raises TypeError for a None coordinate.
GetTransitParameters(choice, now, custom_dt, custom_loc, current_location) ==
    LET chosen == ProcessChoice(choice, now, custom_dt, custom_loc, current_location)
        params == IF HasCoordinates(chosen.location)
                  THEN chosen
                  ELSE [transit_datetime |-> now, location |-> current_location,
                        is_custom |-> FALSE]
    IN IF HasCoordinates(params.location)
       THEN [status |-> "returned"] @@ params
       ELSE [status |-> "raised"] @@ params

NoLocation == Location("", "", None, None, None)

NoDatetime == [year |-> 1, month |-> 1, day |-> 1, hour |-> 0, minute |-> 0]

\* No get_transit_parameters call yet.
NoParams ==
    [status |-> "none", typed |-> "", choice |-> "1", now |-> NoDatetime, custom_dt |-> NoDatetime,
     custom_loc |-> NoLocation, saved |-> NoLocation,
     transit_datetime |-> NoDatetime, location |-> NoLocation, is_custom |-> FALSE]

\* The record of a get_transit_parameters call: the accepted input, the
\* other inputs and the outcome.
ParamsCall(inputs, now, custom_dt, custom_loc, current_location) ==
    [typed |-> inputs[Len(inputs)], choice |-> Choice(inputs)[1], now |-> now,
     custom_dt |-> custom_dt, custom_loc |-> custom_loc, saved |-> current_location]
    @@ GetTransitParameters(Choice(inputs)[1], now, custom_dt, custom_loc,
                            current_location)

\* No create_transit_state call yet.
NoState ==
    [status |-> "none", name |-> <<>>, email |-> "", date_of_birth |-> NoDatetime,
     birthplace_latitude |-> None, birthplace_longitude |-> None,
     birthplace_timezone |-> None, current_location_timezone |-> None]

\* TransitState(...): pydantic rejects None for a str or float field.
TransitState(subject_data, birth_dt, params) ==
    LET fields ==
          [name |-> subject_data.name,
           email |-> IF subject_data.email = None THEN "" ELSE subject_data.email[1],
           date_of_birth |-> birth_dt,
           birthplace_latitude |-> subject_data.birthplace.latitude,
           birthplace_longitude |-> subject_data.birthplace.longitude,
           birthplace_timezone |-> subject_data.birthplace.timezone,
           current_location_timezone |-> params.location.timezone]
    IN IF \/ fields.birthplace_latitude = None
          \/ fields.birthplace_longitude = None
          \/ fields.birthplace_timezone = None
          \/ fields.current_location_timezone = None
       THEN [status |-> "raised"] @@ fields
       ELSE [status |-> "built"] @@ fields

\* create_subject_data: the profile is written unless the write fails.
CreateSubjectData(name, dt, place, tzResult, email, padsYear, writeOK) ==
    /\ subject_file = None
    /\ entered' = [name |-> name, date_of_birth |-> dt, latitude |-> place.latitude,
                   longitude |-> place.longitude, timezone |-> tzResult,
                   email |-> email]
    /\ subject_file' = IF writeOK
                       THEN Some(SubjectData(name, dt, place, tzResult, email, padsYear))
                       ELSE None
    /\ t_params' = NoParams
    /\ t_state' = NoState
    /\ UNCHANGED <<flowVars, ingestVars, embedVars, draftVars, outputVars, llmVars, chunkVars, aspectVars>>

\* get_transit_parameters called with a saved location, the user's inputs at
\* the choice prompt, the clock, and the date/time and location they enter.
CallGetTransitParameters(inputs, now, custom_dt, custom_loc, saved) ==
    /\ Choice(inputs) # None
    /\ t_params' = ParamsCall(inputs, now, custom_dt, custom_loc, saved)
    /\ UNCHANGED <<subject_file, entered, t_state>>
    /\ UNCHANGED <<flowVars, ingestVars, embedVars, draftVars, outputVars, llmVars, chunkVars, aspectVars>>

\* create_transit_state for the existing profile: load it, ask for the
\* transit parameters, parse the birth date and build the TransitState.
CreateTransitState(inputs, now, custom_dt, custom_loc) ==
    /\ Choice(inputs) # None
    /\ IF subject_file = None
       THEN /\ t_state' = [NoState EXCEPT !.status = "raised"]
            /\ UNCHANGED t_params
       ELSE LET subject_data == subject_file[1]
                call == ParamsCall(inputs, now, custom_dt, custom_loc,
                                   CurrentLoc(subject_data))
                birth_dt == Strptime(subject_data.date_of_birth)
            IN /\ t_params' = call
               /\ t_state' =
                     IF call.status = "raised" \/ birth_dt = None
                     THEN [NoState EXCEPT !.status = "raised"]
                     ELSE TransitState(subject_data, birth_dt[1], call)
    /\ UNCHANGED <<subject_file, entered>>
    /\ UNCHANGED <<flowVars, ingestVars, embedVars, draftVars, outputVars, llmVars, chunkVars, aspectVars>>

NoEntry ==
    [name |-> <<>>, date_of_birth |-> NoDatetime, latitude |-> 0, longitude |-> 0,
     timezone |-> None, email |-> ""]

RestProfile ==
    /\ subject_file = None
    /\ entered = NoEntry
    /\ t_params = NoParams
    /\ t_state = NoState

\* The inputs at the choice prompt: at most MaxPrompts of them.
MaxPrompts == 2

\* The prompt is repeated until an input is accepted, and no further.
PromptInputs ==
    {s \in UNION {[1..n -> ChoiceInputs] : n \in 1..MaxPrompts} :
        Choice(s) # None /\ Choice(SubSeq(s, 1, Len(s) - 1)) = None}

NextParams ==
    \E inputs \in PromptInputs, now \in NowDatetimes, custom_dt \in TransitDatetimes,
       place \in GeocodedPlaces, tzResult \in TimezoneResults, saved \in SavedLocations :
       CallGetTransitParameters(inputs, now, custom_dt,
                                TransitLocation(place, tzResult), saved)

NextProfile ==
    \/ \E name \in Names, dt \in BirthDatetimes, place \in GeocodedPlaces,
          tzResult \in TimezoneResults, email \in Emails, padsYear, writeOK \in BOOLEAN :
          CreateSubjectData(name, dt, place, tzResult, email, padsYear, writeOK)
    \/ \E inputs \in PromptInputs, now \in NowDatetimes, custom_dt \in TransitDatetimes,
          place \in GeocodedPlaces, tzResult \in TimezoneResults :
          CreateTransitState(inputs, now, custom_dt, TransitLocation(place, tzResult))

(***************************************************************************)
(* LLM configuration: get_llm_for_agent and _create_llm_instance           *)
(***************************************************************************)
\* What llm_config.yaml and the environment hold for the agent asked for:
\* whether the agents section has the agent, the provider and temperature
\* preset its entry names (None when missing), whether the providers and
\* temperatures sections have them, the provider's model, api_key_env and
\* base_url (None when missing), whether the variable api_key_env names is
\* set, and whether LLM(**llm_kwargs) returns.
LlmConfigs ==
    [agent_listed : BOOLEAN,
     provider : {None, Some("gpt41"), Some("ollama_local")},
     temperature : {None, Some("creative")},
     provider_listed : BOOLEAN,
     preset_listed : BOOLEAN,
     model : {None, Some("model")},
     api_key_env : {None, Some("API_KEY")},
     base_url : {None, Some("url")},
     key_set : BOOLEAN,
     llmOK : BOOLEAN]

\* provider_name.startswith('ollama')
IsOllama(provider_name) == provider_name = "ollama_local"

ValueError == [status |-> "ValueError", constructed |-> FALSE, api_key |-> FALSE,
               base_url |-> FALSE]

\* llm_kwargs and the result of LLM(**llm_kwargs).
BuildLlm(cfg, with_key) ==
    [status |-> IF cfg.llmOK THEN "LLM" ELSE "ValueError",
     constructed |-> TRUE,
     api_key |-> with_key,
     base_url |-> cfg.base_url # None]

\* _create_llm_instance with the Ollama adjustment made before the key is read.
CreateLlmInstanceOllamaFirst(cfg) ==
    IF cfg.model = None THEN ValueError
    ELSE IF IsOllama(cfg.provider[1]) THEN BuildLlm(cfg, FALSE)
    ELSE IF cfg.api_key_env # None /\ ~cfg.key_set THEN ValueError
    ELSE BuildLlm(cfg, cfg.api_key_env # None)

\* _create_llm_instance: the model, then the API key when api_key_env is
\* given, base_url, the removal of the key for Ollama, and the constructor.
CreateLlmInstance(cfg) ==
    IF cfg.model = None THEN ValueError
    ELSE IF cfg.api_key_env # None /\ ~cfg.key_set THEN ValueError
    ELSE BuildLlm(cfg, cfg.api_key_env # None /\ ~IsOllama(cfg.provider[1]))

\* get_llm_for_agent.
GetLlmForAgent(cfg) ==
    IF ~cfg.agent_listed THEN ValueError
    ELSE IF cfg.provider = None THEN ValueError
    ELSE IF cfg.temperature = None THEN ValueError
    ELSE IF ~cfg.provider_listed THEN ValueError
    ELSE IF ~cfg.preset_listed THEN ValueError
    ELSE CreateLlmInstance(cfg)

NoLlmCall ==
    [called |-> FALSE,
     cfg |-> [agent_listed |-> FALSE, provider |-> None, temperature |-> None,
              provider_listed |-> FALSE, preset_listed |-> FALSE, model |-> None,
              api_key_env |-> None, base_url |-> None, key_set |-> FALSE,
              llmOK |-> FALSE],
     ret |-> ValueError]

CallGetLlmForAgent(cfg) ==
    /\ llm_call' = [called |-> TRUE, cfg |-> cfg, ret |-> GetLlmForAgent(cfg)]
    /\ UNCHANGED <<flowVars, ingestVars, embedVars, draftVars, outputVars, profileVars, chunkVars, aspectVars>>

RestLlm == llm_call = NoLlmCall

NextLlm == \E cfg \in LlmConfigs : CallGetLlmForAgent(cfg)

(***************************************************************************)
(* Chunking: Setup.extract_text_from_markdown                              *)
(***************************************************************************)
\* A file content is a sequence of segments, each a short pattern of
\* characters repeated rep times; positions count from 0 as in Python.
Seg(pat, rep) == [pat |-> pat, rep |-> rep]

SegLen(sg) == Len(sg.pat) * sg.rep

RECURSIVE ContentLength(_)
ContentLength(c) == IF c = <<>> THEN 0 ELSE SegLen(Head(c)) + ContentLength(Tail(c))

\* content[i]
RECURSIVE CharAt(_, _)
CharAt(c, i) ==
    IF i < SegLen(Head(c))
    THEN Head(c).pat[(i % Len(Head(c).pat)) + 1]
    ELSE CharAt(Tail(c), i - SegLen(Head(c)))

\* The characters str.strip() removes.
Whitespace == {" ", "\n"}

IsSpace(ch) == ch \in Whitespace

\* The position after the segment holding position i, and the position at
\* which that segment begins.
RECURSIVE SegEndFrom(_, _, _)
SegEndFrom(c, i, base) ==
    IF i < base + SegLen(Head(c)) THEN base + SegLen(Head(c))
    ELSE SegEndFrom(Tail(c), i, base + SegLen(Head(c)))

RECURSIVE SegBeginFrom(_, _, _)
SegBeginFrom(c, i, base) ==
    IF i < base + SegLen(Head(c)) THEN base
    ELSE SegBeginFrom(Tail(c), i, base + SegLen(Head(c)))

RECURSIVE SegAt(_, _)
SegAt(c, i) == IF i < SegLen(Head(c)) THEN Head(c) ELSE SegAt(Tail(c), i - SegLen(Head(c)))

AllSpace(sg) == \A k \in 1..Len(sg.pat) : IsSpace(sg.pat[k])

\* The first position in [lo, hi) that holds no whitespace, or hi.
RECURSIVE FirstNonSpace(_, _, _)
FirstNonSpace(c, lo, hi) ==
    IF lo >= hi THEN hi
    ELSE IF ~IsSpace(CharAt(c, lo)) THEN lo
    ELSE IF AllSpace(SegAt(c, lo)) THEN FirstNonSpace(c, SegEndFrom(c, lo, 0), hi)
    ELSE FirstNonSpace(c, lo + 1, hi)

\* One past the last position in [lo, hi) that holds no whitespace, or lo.
RECURSIVE LastNonSpaceEnd(_, _, _)
LastNonSpaceEnd(c, lo, hi) ==
    IF hi <= lo THEN lo
    ELSE IF ~IsSpace(CharAt(c, hi - 1)) THEN hi
    ELSE IF AllSpace(SegAt(c, hi - 1)) THEN LastNonSpaceEnd(c, lo, SegBeginFrom(c, hi - 1, 0))
    ELSE LastNonSpaceEnd(c, lo, hi - 1)

\* content[lo:hi].strip(), as the part [lo, hi) of content it holds; the
\* empty string is a part with lo = hi.
Strip(c, lo, hi) ==
    LET a == FirstNonSpace(c, lo, hi) IN
    IF a >= hi THEN [lo |-> hi, hi |-> hi]
    ELSE [lo |-> a, hi |-> LastNonSpaceEnd(c, a, hi)]

\* content.startswith(sub, p)
MatchAt(c, sub, p) ==
    /\ p >= 0
    /\ p + Len(sub) <= ContentLength(c)
    /\ \A k \in 1..Len(sub) : CharAt(c, p + k - 1) = sub[k]

\* content.rfind(sub, start, end) for 0 <= start <= end <= len(content).
Rfind(c, sub, start, end) ==
    LET found == {p \in start..(end - Len(sub)) : MatchAt(c, sub, p)} IN
    IF found = {} THEN -1 ELSE CHOOSE p \in found : \A q \in found : q <= p

ChunkSize == 1500

ChunkOverlap == 250

MaxLookBack == 100

Min2(a, b) == IF a < b THEN a ELSE b

\* look_back_range = min(100, chunk_size // 10)
LookBackRange == Min2(MaxLookBack, ChunkSize \div 10)

\* for punct in [". ", "! ", "? ", "\n"]
Puncts == << <<".", " ">>, <<"!", " ">>, <<"?", " ">>, <<"\n">> >>

\* The end after the first punct found in the look-back range, or end.
RECURSIVE PunctBreak(_, _, _)
PunctBreak(c, end, k) ==
    IF k > Len(Puncts) THEN end
    ELSE LET p == Rfind(c, Puncts[k], end - LookBackRange, end) IN
         IF p # -1 THEN p + 1 ELSE PunctBreak(c, end, k + 1)

\* end_position of the iteration that begins at cur.
EndPosition(c, cur) ==
    LET end == Min2(cur + ChunkSize, ContentLength(c)) IN
    IF end < ContentLength(c)
    THEN LET p == Rfind(c, <<"\n", "\n">>, end - LookBackRange, end) IN
         IF p # -1 THEN p ELSE PunctBreak(c, end, 1)
    ELSE end

\* The next current_position with the chunk size taken back in place of the
\* overlap.
NextPositionNoProgress(end, len) == IF end < len THEN end - ChunkSize ELSE len

\* The next current_position with no overlap taken back.
NextPositionNoOverlap(end, len) == IF end < len THEN end ELSE len

\* The next current_position with the overlap added.
NextPositionSkipping(end, len) == IF end < len THEN end + ChunkOverlap ELSE len

\* current_position = end_position - chunk_overlap if end_position <
\* content_length else content_length
NextPosition(end, len) == IF end < len THEN end - ChunkOverlap ELSE len

\* The contents: ordinary text, a mark, ordinary text, a repeated mark,
\* ordinary text; the lengths put the marks around the ends of the windows.
HeadLengths == {0, 1, 1399, 1400, 1450, 1499}

Marks == { <<"\n", "\n">>, <<".", " ">>, <<"!", " ">>, <<"?", " ">>, <<"\n">>,
           <<" ">>, <<".">> }

MidLengths == {0, 98, 1200}

Fillers == { <<" ">>, <<"\n", "\n">>, <<"x", ".", " ">> }

FillerRepeats == {0, 1, 1600}

TailLengths == {0, 1, 300}

Contents ==
    { << Seg(<<"x">>, a), Seg(m, 1), Seg(<<"x">>, b), Seg(f, r), Seg(<<"x">>, t) >> :
        a \in HeadLengths, m \in Marks, b \in MidLengths, f \in Fillers,
        r \in FillerRepeats, t \in TailLengths }

\* not content.strip()
IsBlank(c) == FirstNonSpace(c, 0, ContentLength(c)) >= ContentLength(c)

InitChunk ==
    /\ content \in Contents
    /\ ch_pc = "read"
    /\ current_position = 0
    /\ windows = <<>>
    /\ text_chunks = <<>>

\* content = f.read(); a blank content is skipped, any other enters the loop
\* with current_position = 0.
ReadContent ==
    /\ ch_pc = "read"
    /\ ch_pc' = IF IsBlank(content) THEN "done" ELSE "loop"
    /\ UNCHANGED <<content, current_position, windows, text_chunks>>
    /\ UNCHANGED <<flowVars, ingestVars, embedVars, draftVars, outputVars, profileVars, llmVars, aspectVars>>

\* One iteration of while current_position < content_length.
ChunkStep ==
    /\ ch_pc = "loop"
    /\ LET len == ContentLength(content)
           end == EndPosition(content, current_position)
           chunk == Strip(content, current_position, end)
           next == NextPosition(end, len)
       IN  /\ windows' = Append(windows, [start |-> current_position, end |-> end])
           /\ text_chunks' = IF chunk.lo < chunk.hi THEN Append(text_chunks, chunk)
                             ELSE text_chunks
           /\ current_position' = next
           /\ ch_pc' = IF next < len THEN "loop" ELSE "done"
    /\ UNCHANGED content
    /\ UNCHANGED <<flowVars, ingestVars, embedVars, draftVars, outputVars, profileVars, llmVars, aspectVars>>

RestChunk ==
    /\ content = << Seg(<<"x">>, 1) >>
    /\ ch_pc = "done"
    /\ current_position = 0
    /\ windows = <<>>
    /\ text_chunks = <<>>

NextChunk == ReadContent \/ ChunkStep

(***************************************************************************)
(* Aspect lines: format_aspects and the aspects section of                 *)
(* get_transit_natal_aspects                                               *)
(***************************************************************************)
\* The object ids of the chart data (the keys are strings).
ObjectIds == {"sun", "moon", "mars"}

\* The order of sorted() on the ids.
IdRank(id) == CASE id = "mars" -> 1 [] id = "moon" -> 2 [] OTHER -> 3

MaxAspects == 3

\* The (active, passive) entries of a nested dictionary in iteration order:
\* no entry twice, and the entries of one active id next to each other.
IsAspectOrder(es) ==
    /\ \A i, j \in 1..Len(es) : i # j => es[i] # es[j]
    /\ \A i, j, k \in 1..Len(es) :
          (i < j /\ j < k /\ es[i][1] = es[k][1]) => es[j][1] = es[i][1]

AspectOrders ==
    {es \in UNION {[1..n -> ObjectIds \X ObjectIds] : n \in 0..MaxAspects} :
        IsAspectOrder(es)}

\* The line "(No major aspects listed or calculable in source data)".
NoAspectsLine == <<"none">>

\* The key of an entry with the two ids kept in their order.
PairOrdered(a, b) == <<a, b>>

\* pair = tuple(sorted((active_id_str, passive_id_str)))
Pair(a, b) == IF IdRank(a) <= IdRank(b) THEN <<a, b>> ELSE <<b, a>>

InitAspects ==
    /\ aspects \in AspectOrders
    /\ object_map \in SUBSET ObjectIds
    /\ next_aspect = 1
    /\ processed_aspects = {}
    /\ aspect_lines = <<>>
    /\ as_pc = "loop"

\* One iteration of the inner loop: a pair seen before is skipped; a new pair
\* is recorded and, when both objects are in object_map, its line appended.
AspectStep ==
    /\ as_pc = "loop"
    /\ next_aspect <= Len(aspects)
    /\ LET a == aspects[next_aspect][1]
           b == aspects[next_aspect][2]
           pair == Pair(a, b)
       IN  IF pair \in processed_aspects
           THEN UNCHANGED <<processed_aspects, aspect_lines>>
           ELSE /\ processed_aspects' = processed_aspects \cup {pair}
                /\ aspect_lines' =
                      IF a \in object_map /\ b \in object_map
                      THEN Append(aspect_lines, <<a, b>>)
                      ELSE aspect_lines
    /\ next_aspect' = next_aspect + 1
    /\ UNCHANGED <<aspects, object_map, as_pc>>
    /\ UNCHANGED <<flowVars, ingestVars, embedVars, draftVars, outputVars, profileVars, llmVars, chunkVars>>

\* After the loops: the placeholder line when no pair was processed.
AspectsEnd ==
    /\ as_pc = "loop"
    /\ next_aspect > Len(aspects)
    /\ aspect_lines' = IF processed_aspects = {} THEN Append(aspect_lines, NoAspectsLine)
                       ELSE aspect_lines
    /\ as_pc' = "done"
    /\ UNCHANGED <<aspects, object_map, next_aspect, processed_aspects>>
    /\ UNCHANGED <<flowVars, ingestVars, embedVars, draftVars, outputVars, profileVars, llmVars, chunkVars>>

RestAspects ==
    /\ aspects = <<>>
    /\ object_map = {}
    /\ next_aspect = 1
    /\ processed_aspects = {}
    /\ aspect_lines = <<>>
    /\ as_pc = "done"

NextAspects == AspectStep \/ AspectsEnd

(***************************************************************************)
(* The specifications                                                      *)
(***************************************************************************)
Init == InitFlow /\ RestIngest /\ RestEmbed /\ RestDraft /\ RestOutput /\ RestProfile /\ RestLlm /\ RestChunk /\ RestAspects

Next ==
    \/ Kickoff
    \/ \E s \in Steps : StartStep(s)
    \/ \E s \in Steps : FinishStep(s)
    \/ \E s \in Steps : RaiseStep(s)
    \/ FlowAbort

Spec == Init /\ [][Next]_vars

\* The flow on the state record class TransitState declares.
InitDeclared ==
    InitFlowDeclared /\ RestIngest /\ RestEmbed /\ RestDraft /\ RestOutput
    /\ RestProfile /\ RestLlm /\ RestChunk /\ RestAspects

SpecDeclared == InitDeclared /\ [][Next]_vars

\* What the framework's executor guarantees once kickoff() is called: the
\* call proceeds, a triggered step is started, and a running step ends (it
\* returns or raises).
Fairness ==
    /\ WF_vars(Kickoff)
    /\ \A s \in Steps : WF_vars(StartStep(s))
    /\ \A s \in Steps : WF_vars(FinishStep(s) \/ RaiseStep(s))

SpecFair == InitDeclared /\ [][Next]_vars /\ Fairness

NextIngest ==
    \/ \E g, q \in BOOLEAN : NewSetup(g, q)
    \/ \E existsOK \in BOOLEAN, countFails \in SUBSET Files :
          ProcessScan(existsOK, countFails)
    \/ \E readOK \in BOOLEAN, embedOK \in SUBSET (1..MaxChunks), env \in StoreEnv :
          ProcessFile(readOK, embedOK, env)

\* One run: the ingestion of setup_qdrant, then the searches of the crews.
NextSearch ==
    \/ \E existsOK \in BOOLEAN, countFails \in SUBSET Files :
          ProcessScan(existsOK, countFails)
    \/ \E readOK \in BOOLEAN, embedOK \in SUBSET (1..MaxChunks), env \in StoreEnv :
          ProcessFile(readOK, embedOK, env)
    \/ \E client \in ClientOutcomes, embed \in EmbedOutcomes, search \in SearchOutcomes :
          SearchCollection(client, embed, search)

InitOfIngest == RestFlow /\ InitIngest /\ RestEmbed /\ RestDraft /\ RestOutput /\ RestProfile /\ RestLlm /\ RestChunk /\ RestAspects

SpecIngest == InitOfIngest /\ [][NextIngest]_vars

SpecSearch == InitOfIngest /\ [][NextSearch]_vars

\* Nothing has been called yet.
InitOfCalls == RestFlow /\ RestIngest /\ RestEmbed /\ RestDraft /\ RestOutput /\ RestProfile /\ RestLlm /\ RestChunk /\ RestAspects

SpecEmbed == InitOfCalls /\ [][NextEmbed]_vars

SpecDraft == InitOfCalls /\ [][NextDraft]_vars

SpecOutput == InitOfCalls /\ [][NextOutput]_vars

SpecProfile == InitOfCalls /\ [][NextProfile]_vars

SpecParams == InitOfCalls /\ [][NextParams]_vars

SpecLlm == InitOfCalls /\ [][NextLlm]_vars

\* A file has been opened for chunking; nothing else has been called.
InitOfChunk ==
    RestFlow /\ RestIngest /\ RestEmbed /\ RestDraft /\ RestOutput /\ RestProfile
    /\ RestLlm /\ InitChunk /\ RestAspects

SpecChunk == InitOfChunk /\ [][NextChunk]_vars

\* The aspects of a chart are about to be formatted; nothing else has been
\* called.
InitOfAspects ==
    RestFlow /\ RestIngest /\ RestEmbed /\ RestDraft /\ RestOutput /\ RestProfile
    /\ RestLlm /\ RestChunk /\ InitAspects

SpecAspects == InitOfAspects /\ [][NextAspects]_vars

(***************************************************************************)
(* Claims about the flow                                                   *)
(***************************************************************************)
\* C1: no analysis step starts before all three chart steps have completed,
\* and no chart step starts before setup_qdrant has completed.
C1_ChartsGateAnalyses ==
    /\ \A a \in AnalysisSteps : Started(a) => \A c \in ChartSteps : Done(c)
    /\ \A c \in ChartSteps : Started(c) => Done("setup_qdrant")

\* C1 witness: an analysis step is running.
C1_Witness == \E a \in AnalysisSteps : active[a] > 0

\* The analysis step whose field review step r rewrites.
AnalysisReviewedBy(r) == ProducerOf(CHOOSE f \in WritesOf(r) : TRUE)

\* C2 as stated: no review step starts while any of the three analysis steps
\* has not yet completed.
C2_ReviewsAfterAllAnalyses ==
    \A r \in ReviewSteps : Started(r) => \A a \in AnalysisSteps : Done(a)

\* C2 amended: a review step starts only after the analysis step it reviews
\* has completed (the other two analyses may still be running).
C2_ReviewAfterOwnAnalysis ==
    \A r \in ReviewSteps : Started(r) => Done(AnalysisReviewedBy(r))

\* C2 witness: a review step is running while another analysis has not completed.
C2_Witness ==
    \E r \in ReviewSteps : active[r] > 0 /\ \E a \in AnalysisSteps : ~Done(a)

\* C3: generate_chart_appendices starts only after all three review steps have
\* completed, and the six tail steps run in their order, never two at the
\* same time, each at most once.
C3_LinearTail ==
    /\ Started("generate_chart_appendices") => \A r \in ReviewSteps : Done(r)
    /\ \A i, j \in 1..Len(TailSteps) :
          (i < j /\ (Started(TailSteps[j]) \/ queued[TailSteps[j]] > 0))
             => (Done(TailSteps[i]) /\ active[TailSteps[i]] = 0)
    /\ Cardinality({i \in 1..Len(TailSteps) : active[TailSteps[i]] > 0}) <= 1
    /\ \A i \in 1..Len(TailSteps) : Runs(TailSteps[i]) <= 1

\* C3 witness: the last step of the tail has completed.
C3_Witness == Done("send_transit_analysis")

\* C4: a running step reads only fields whose producing step has completed
\* and has assigned them.
C4_NoReadBeforeProduced ==
    \A s \in Steps :
        active[s] > 0 =>
            \A f \in ReadsOf(s, include_appendices) :
                Done(ProducerOf(f)) /\ ProducerOf(f) \in writers[f]

\* C4 witness: interrogate_report_draft, which reads seven produced fields, is running.
C4_Witness == active["interrogate_report_draft"] > 0

\* C5 as stated: no state field is written by two different flow steps.
C5_OneWriterPerField == \A f \in Fields : Cardinality(writers[f]) <= 1

\* C5 amended: no field is written by two steps that run at the same time,
\* and only the three analysis fields (generate step, then review step) and
\* report_markdown (generate_report_draft, interrogate_report_draft,
\* save_transit_analysis) have more than one writer.
C5_NoConcurrentWriters ==
    /\ \A s1, s2 \in Steps :
          (s1 # s2 /\ active[s1] > 0 /\ active[s2] > 0)
             => WritesOf(s1) \cap WritesOf(s2) = {}
    /\ \A s \in Steps : active[s] <= 1
    /\ \A f \in Fields :
          Cardinality(writers[f]) <=
             (CASE f \in {"transit_analysis", "natal_analysis",
                          "transit_to_natal_analysis"} -> 2
                [] f = "report_markdown" -> 3
                [] OTHER -> 1)

\* C5 witness: report_markdown has been written by three steps and
\* transit_analysis by two.
C5_Witness ==
    /\ Cardinality(writers["report_markdown"]) = 3
    /\ Cardinality(writers["transit_analysis"]) = 2

\* The text fields of the record (the other two hold file paths).
TextFields == Fields \ {"kerykeion_transit_chart", "report_pdf"}

\* C6 as stated: whenever a stage runs, every upstream text field it consumes
\* is non-empty.
C6_ConsumedTextNonEmpty ==
    \A s \in Steps :
        active[s] > 0 =>
            \A f \in ReadsOf(s, include_appendices) \cap TextFields : state[f] # ""

\* C6 amended: a text field a running stage consumes is empty only when the
\* call that produced it returned the empty string, or when it is
\* chart_appendices and appendices are switched off; it is never a field
\* that is still unassigned.
C6_EmptyOnlyFromProducer ==
    \A s \in Steps :
        active[s] > 0 =>
            \A f \in ReadsOf(s, include_appendices) \cap TextFields :
                state[f] = "" =>
                    \/ f \in empty_out
                    \/ (f = "chart_appendices" /\ ~include_appendices
                        /\ "generate_chart_appendices" \in writers[f])

\* C6 witness: save_transit_analysis runs on an empty chart_appendices while
\* the report it also consumes is non-empty.
C6_Witness ==
    /\ active["save_transit_analysis"] > 0
    /\ state["chart_appendices"] = ""
    /\ state["report_markdown"] # ""

\* C7 as stated: once any step has raised, no step that has not yet started
\* is ever started.
C7_NoStartAfterRaise ==
    [][AnyFailed => \A s \in Steps : active'[s] <= active[s]]_vars

\* C7 amended: a step that raised never completes and no step downstream of
\* it is ever triggered or started; hence after a failure of a step before
\* save_transit_analysis no report file is written, and after a failure of a
\* step before send_transit_analysis no email draft is created.
C7_NothingDownstreamOfFailure ==
    /\ \A s \in Steps :
          failed[s] > 0 =>
             /\ ~Done(s)
             /\ \A d \in Downstream(s) : Runs(d) = 0
    /\ (\E s \in Steps \ {"save_transit_analysis", "send_transit_analysis"} :
           failed[s] > 0) => ~md_file_written
    /\ (\E s \in Steps \ {"send_transit_analysis"} : failed[s] > 0) => ~draft_created

\* C7 witness: a review step raised, the run was aborted, and the other two
\* review steps completed.
C7_Witness ==
    /\ aborted
    /\ \E r \in ReviewSteps :
          failed[r] > 0 /\ \A o \in ReviewSteps \ {r} : Done(o)

C18_NoDataRace ==
    \A s1, s2 \in Steps :
        (s1 # s2 /\ active[s1] > 0 /\ active[s2] > 0) =>
            WritesOf(s1) \cap (ReadsOf(s2, include_appendices) \cup WritesOf(s2)
                               \cup InputReadsOf(s2)) = {}

\* C18 witness: a review step and another chart's analysis step are running
\* at the same time.
C18_Witness ==
    /\ active["review_transit_analysis"] > 0
    /\ active["generate_natal_analysis"] > 0

\* C20 as stated: every state field a step reads or assigns is declared by
\* TransitState, and no step fails because self.state lacks a field it
\* accesses.
C20_AccessedFieldsDeclared ==
    /\ \A s \in Steps : active[s] > 0 =>
          Accesses(s, include_appendices) \subseteq state_fields
    /\ no_field = {}

\* C20 witness: the record is the one TransitState declares and the three
\* analysis steps have raised at their read of biographical_context.
C20_Witness ==
    /\ state_fields = TransitStateFields
    /\ no_field = AnalysisSteps
    /\ \A c \in ChartSteps : Done(c)

\* Every one of the sixteen steps has run exactly once and none is
\* triggered or running; send_transit_analysis is among them.
AllStepsRanOnce ==
    \A s \in Steps : completed[s] = 1 /\ queued[s] = 0 /\ active[s] = 0 /\ failed[s] = 0

\* C19 as stated: if no step raises, a run started by kickoff() eventually
\* has run every one of the sixteen steps exactly once, ending with
\* send_transit_analysis.
C19_EveryStepRunsOnce == ([]~AnyFailed) => <>AllStepsRanOnce

\* C19 witness: kickoff() was called, TransitFlow() raised, and no step has
\* been triggered or has raised.
C19_Witness ==
    /\ construct_failed
    /\ ~AnyFailed
    /\ \A s \in Steps : Runs(s) = 0

(***************************************************************************)
(* Claims about the ingestion                                              *)
(***************************************************************************)
\* C9: after any sequence of process_new_markdown_files calls the collection
\* holds at most one copy of each markdown file's chunks.
C9_AtMostOneCopy ==
    \A f \in Files : \A c \in 1..MaxChunks : points[f][c] <= 1

\* C9 (the failing run): a.md is stored once, a later Setup scans while the
\* count query for a.md fails, and a.md is embedded and upserted again.
C9_Witness ==
    /\ "a.md" \in processed_files
    /\ points["a.md"][1] = 2

(***************************************************************************)
(* Claims about the embedding and search calls                             *)
(***************************************************************************)
\* A custom_gemini_embedding_fn call met a failure.
EmbFailure(c) == c.called /\ (c.client # "ok" \/ c.embed # "values")

\* A _run call met a failure.
SearchFailure(c) == EmbFailure(c) \/ (c.called /\ c.search = "raises")

\* C8 (as stated): on a failure custom_gemini_embedding_fn,
\* generate_gemini_embeddings and _run do not raise and return an empty
\* result or None.
C8_FailureReturnsEmptyOrNone ==
    /\ EmbFailure(emb_call) => emb_call.ret = "None"
    /\ (gen_call.called /\ gen_call.failed # {}) => gen_call.ret = {}
    /\ SearchFailure(search_call) => search_call.ret \in {"[]", "None"}

\* C8 (amended): _run never raises and answers a failure with an error
\* message; generate_gemini_embeddings never raises, returns nothing without a
\* client and otherwise exactly the chunks whose call succeeded;
\* custom_gemini_embedding_fn returns None for a failed or empty embedding and
\* raises exactly when constructing the client raises.
C8_FailureHandling ==
    /\ emb_call.called =>
          /\ (emb_call.ret = "raise") = (emb_call.client = "raises")
          /\ (emb_call.ret = "None") =
                (emb_call.client = "ok" /\ emb_call.embed # "values")
    /\ gen_call.called =>
          gen_call.ret = IF gen_call.client
                         THEN gen_call.chunks \ gen_call.failed
                         ELSE {}
    /\ search_call.called =>
          /\ search_call.ret # "raise"
          /\ SearchFailure(search_call) =
                (search_call.ret \in {"Error during Qdrant search",
                      "Error: Could not generate embedding for the query."})

\* C8: each function has met its failure: the client construction raised in
\* one, a chunk failed while another embedded, the search raised.
C8_Witness ==
    /\ emb_call.called /\ emb_call.client = "raises"
    /\ gen_call.called /\ gen_call.failed # {} /\ gen_call.ret # {}
    /\ search_call.called /\ search_call.client = "ok"
    /\ search_call.embed = "values" /\ search_call.search = "raises"

(***************************************************************************)
(* Claims about the Gmail drafts                                           *)
(***************************************************************************)
\* C10 (as stated): every draft created has the attachment it was given.
C10_EveryDraftHasAttachment ==
    \A i \in 1..Len(drafts) : drafts[i].attached

\* C10 (amended): a draft lacks the attachment exactly when the attachment
\* file was not found; an attachment that fails otherwise yields no draft.
C10_DraftLacksOnlyMissingFile ==
    \A i \in 1..Len(drafts) :
        /\ drafts[i].file # "error"
        /\ drafts[i].attached = (drafts[i].file = "ok")

\* C10: a draft was created although the attachment file was not found, and
\* a later call with an unreadable attachment returned None.
C10_Witness ==
    /\ \E i \in 1..Len(drafts) : drafts[i].file = "notfound" /\ ~drafts[i].attached
    /\ \E i \in 1..Len(drafts) : drafts[i].attached
    /\ draft_ret = "None"

(***************************************************************************)
(* Claims about the output files                                           *)
(***************************************************************************)
\* C11 (as stated): runs started at different instants never write the same
\* path, so no file of a run is overwritten by a run started at another time.
C11_NoOverwriteAcrossInstants ==
    \A o \in overwrites : run_start[o.by] = run_start[o.of]

\* C11 (amended): a run overwrites another run's file only for the same
\* normalised name on the same day; the markdown report and the PDF only when
\* both runs started within the same second (the PNG carries no timestamp).
C11_OverwriteOnlySameStamp ==
    \A o \in overwrites :
        /\ ReplaceSpaces(run_name[o.by]) = ReplaceSpaces(run_name[o.of])
        /\ DateToday(run_start[o.by]) = DateToday(run_start[o.of])
        /\ o.path.ext \in {"md", "pdf"} =>
              Timestamp(run_start[o.by]) = Timestamp(run_start[o.of])

\* C11: two runs for the same subject started in different seconds of one
\* day have both saved: both reports are on disk, the first PNG is overwritten.
C11_Witness ==
    \E a, b \in RunIds :
        /\ run_pc[a] = "done" /\ run_pc[b] = "done"
        /\ run_name[a] = run_name[b]
        /\ Timestamp(run_start[a]) < Timestamp(run_start[b])
        /\ [path |-> MarkdownFilePath(a), owner |-> a] \in files
        /\ [path |-> MarkdownFilePath(b), owner |-> b] \in files
        /\ [path |-> TransitChartPng(a), by |-> b, of |-> a] \in overwrites

\* C12: within one process_new_markdown_files call every new file is
\* extracted and stored at most once, each chunk's embedding is requested at
\* most once, and a chunk whose request failed is not in the result.
C12_NoRetry ==
    /\ \A f \in Files : in_log.extracted[f] <= 1 /\ in_log.stored[f] <= 1
    /\ \A f \in Files : \A c \in 1..MaxChunks : in_log.requests[f][c] <= 1
    /\ in_log.failed \cap in_log.result = {}

\* C12: a call has returned in which one chunk of a.md failed and another
\* was embedded and stored, each requested once.
C12_Witness ==
    /\ in_pc = "idle" /\ in_ret = "n"
    /\ in_log.extracted["a.md"] = 1 /\ in_log.stored["a.md"] = 1
    /\ \E c, e \in ChunksOf("a.md") :
          /\ <<"a.md", c>> \in in_log.failed
          /\ <<"a.md", e>> \in in_log.result
          /\ in_log.requests["a.md"][c] = 1

(***************************************************************************)
(* Claims about subject profiles and transit parameters                    *)
(***************************************************************************)
\* C13 (as stated): every profile create_subject_data writes is accepted by
\* create_transit_state, and the TransitState carries the entered name, date
\* of birth, birthplace coordinates and email, whatever the timezone lookup
\* returned.
C13_ProfileRoundTrip ==
    (subject_file # None /\ t_state.status # "none") =>
        /\ t_state.status = "built"
        /\ t_state.name = entered.name
        /\ t_state.date_of_birth = entered.date_of_birth
        /\ t_state.birthplace_latitude = Some(entered.latitude)
        /\ t_state.birthplace_longitude = Some(entered.longitude)
        /\ t_state.email = entered.email

\* C13 (the failing run): the timezone lookup failed while the profile was
\* created, the profile was written, and create_transit_state raised on it.
C13_Witness ==
    /\ subject_file # None
    /\ entered.timezone = None
    /\ entered.date_of_birth.year = 1990
    /\ t_state.status = "raised"

\* C14: an empty input selects option 1, and whenever get_transit_parameters
\* returns: option 1 gives the current time, the saved location and is_custom
\* False; option 2 the entered date/time with the saved location; option 3 the
\* current time with the entered location; option 4 both entered values; and
\* is_custom is True for options 2, 3 and 4.
C14_TransitParameters ==
    t_params.status = "returned" =>
        /\ t_params.typed = "" => t_params.choice = "1"
        /\ t_params.typed # "" => t_params.choice = t_params.typed
        /\ t_params.transit_datetime =
              IF t_params.choice \in {"1", "3"} THEN t_params.now ELSE t_params.custom_dt
        /\ t_params.location =
              IF t_params.choice \in {"1", "2"} THEN t_params.saved ELSE t_params.custom_loc
        /\ t_params.is_custom = (t_params.choice \in {"2", "3", "4"})

\* C14: option 2 was chosen and the call returned the entered date/time with
\* the saved location and is_custom True.
C14_Witness ==
    /\ t_params.status = "returned"
    /\ t_params.choice = "2"
    /\ t_params.transit_datetime = t_params.custom_dt
    /\ t_params.location = t_params.saved
    /\ t_params.is_custom

(***************************************************************************)
(* Claims about the search on the ingested collection                      *)
(***************************************************************************)
\* C15 (as stated): the model and vector length of a search query are those
\* with which Setup embeds documents and creates the collection.
C15_QueryMatchesCollection ==
    (search_call.called /\ search_call.coll # <<>>) =>
        /\ search_call.query_model = DocumentEmbeddingModel
        /\ search_call.query_size = search_call.coll[1]

\* C15 (the failing run): Setup has stored a.md in the collection it created,
\* the query was embedded and the search on that collection failed.
C15_Witness ==
    /\ points["a.md"][1] = 1
    /\ search_call.called
    /\ search_call.client = "ok" /\ search_call.embed = "values"
    /\ search_call.coll = <<VectorSize>>
    /\ search_call.query_size # VectorSize
    /\ search_call.ret = "Error during Qdrant search"

(***************************************************************************)
(* Claims about the LLM configuration                                      *)
(***************************************************************************)
\* The agent is not fully configured in one of the ways the claim lists.
NotConfigured(cfg) ==
    \/ ~cfg.agent_listed
    \/ cfg.provider = None
    \/ cfg.temperature = None
    \/ ~cfg.provider_listed
    \/ ~cfg.preset_listed
    \/ (cfg.api_key_env # None /\ ~cfg.key_set)

C21_PositionIncreases ==
    [][ch_pc = "loop" =>
          /\ current_position' > current_position
          /\ current_position' <= ContentLength(content)]_chunkVars

\* C21 witness: the loop has ended after an iteration whose end was moved
\* back to a natural break.
C21_Witness ==
    /\ ch_pc = "done"
    /\ \E i \in 1..Len(windows) :
          /\ windows[i].end < ContentLength(content)
          /\ windows[i].end < windows[i].start + ChunkSize


\* C22: every chunk is non-empty and at most 1500 characters long, and every
\* window after the first starts exactly 250 characters before the end of
\* the window before it.
C22_FixedSizeAndOverlap ==
    /\ \A i \in 1..Len(text_chunks) :
          /\ text_chunks[i].lo < text_chunks[i].hi
          /\ text_chunks[i].hi - text_chunks[i].lo <= ChunkSize
          /\ ~IsSpace(CharAt(content, text_chunks[i].lo))
          /\ ~IsSpace(CharAt(content, text_chunks[i].hi - 1))
    /\ \A i \in 2..Len(windows) :
          windows[i].start = windows[i - 1].end - ChunkOverlap

\* C22 witness: three windows were cut, one of them holding only whitespace,
\* so that fewer chunks than windows were returned.
C22_Witness ==
    /\ ch_pc = "done"
    /\ Len(windows) >= 3
    /\ 0 < Len(text_chunks) /\ Len(text_chunks) < Len(windows)

\* C23: when the loop has ended on a non-blank content, every position of
\* the content that holds no whitespace lies inside a returned chunk.
C23_NoTextLost ==
    (ch_pc = "done" /\ ~IsBlank(content)) =>
        \A p \in 0..(ContentLength(content) - 1) :
            ~IsSpace(CharAt(content, p)) =>
                \E i \in 1..Len(text_chunks) :
                    text_chunks[i].lo <= p /\ p < text_chunks[i].hi

\* C23 witness: a content of more than one window has been chunked, one
\* window having been moved back to a natural break.
C23_Witness ==
    /\ ch_pc = "done"
    /\ Len(text_chunks) >= 2
    /\ \E i \in 1..Len(windows) :
          /\ windows[i].end < ContentLength(content)
          /\ windows[i].end < windows[i].start + ChunkSize
    /\ \E i \in 1..Len(windows) : windows[i].end = windows[i].start + ChunkSize


(***************************************************************************)
(* Claims about stored points                                              *)
(***************************************************************************)
\* C24 as stated: no step of the ingestion removes a point from the
\* collection: every point stored before store_in_qdrant runs is still
\* stored after it.
C24_NoPointRemoved ==
    [][\A f \in Files : \A c \in 1..MaxChunks : points'[f][c] >= points[f][c]]_vars

\* C24 witness: a file stored in this session, and recorded as processed, has
\* no point left in the collection.
C24_Witness ==
    \E f \in Files :
        /\ f \in processed_files
        /\ in_log.stored[f] > 0
        /\ \A c \in 1..MaxChunks : points[f][c] = 0

(***************************************************************************)
(* Claims about the aspect lines                                           *)
(***************************************************************************)
\* The indexes of the aspect lines printed for the unordered pair {a, b}.
LinesOf(a, b) ==
    {i \in 1..Len(aspect_lines) :
        aspect_lines[i] = <<a, b>> \/ aspect_lines[i] = <<b, a>>}

\* The index of the first entry of the aspects dictionary between a and b.
FirstEntry(a, b) ==
    LET is == {i \in 1..Len(aspects) : aspects[i] = <<a, b>> \/ aspects[i] = <<b, a>>}
    IN  CHOOSE i \in is : \A j \in is : i <= j

\* C25: the output has at most one aspect line for each unordered pair of
\* object ids, and that line is the one of the entry of the pair that comes
\* first in the aspects dictionary.
C25_NoDuplicateAspect ==
    \A a, b \in ObjectIds :
        /\ Cardinality(LinesOf(a, b)) <= 1
        /\ \A i \in LinesOf(a, b) : aspect_lines[i] = aspects[FirstEntry(a, b)]

\* C25 witness: the dictionary holds sun->moon and then moon->sun, both
\* objects are known, and the finished output has the one line sun->moon.
C25_Witness ==
    /\ as_pc = "done"
    /\ \E i, j \in 1..Len(aspects) :
          i < j /\ aspects[i] = <<"sun", "moon">> /\ aspects[j] = <<"moon", "sun">>
    /\ {"sun", "moon"} \subseteq object_map
    /\ \E i \in 1..Len(aspect_lines) : aspect_lines[i] = <<"sun", "moon">>

\* C26 as stated: the finished summary has an aspect line for every entry
\* (transiting a, natal b) of the aspects whose two objects are known.
C26_EveryAspectListed ==
    as_pc = "done" =>
        \A i \in 1..Len(aspects) :
            (aspects[i][1] \in object_map /\ aspects[i][2] \in object_map) =>
                \E k \in 1..Len(aspect_lines) : aspect_lines[k] = aspects[i]

\* C26 witness: the aspects hold transiting sun to natal moon and transiting
\* moon to natal sun, all objects known, and the finished summary has no
\* line for one of the two.
C26_Witness ==
    /\ as_pc = "done"
    /\ {"sun", "moon"} \subseteq object_map
    /\ \E i, j \in 1..Len(aspects) :
          /\ aspects[i] = <<"sun", "moon">> /\ aspects[j] = <<"moon", "sun">>
          /\ \E e \in {i, j} :
                \A k \in 1..Len(aspect_lines) : aspect_lines[k] # aspects[e]

====
